---- MODULE Spec2Model ----
(***************************************************************************)
(* A model of the interaction-net reducer of src/src/vm.rs: the tagged     *)
(* word memory, the graph builder (TermGraph::from), the redex scanner     *)
(* (collect_redexes), the four rewrite rules and the two drivers.          *)
(*                                                                         *)
(* Memory is a flat array of 8-byte words.  Every allocation is a block of *)
(* WordsPerBlock words; a pointer is the word address of the block, a      *)
(* field pointer is block address + field offset (repr(C) order).          *)
(* std::alloc::alloc may hand out a never-used block or a block that was   *)
(* deallocated before with the same size; std::alloc::dealloc leaves the   *)
(* bytes in place.  A load or store through a pointer into a deallocated   *)
(* block is undefined behaviour; the model records it in the history       *)
(* variable ub and continues on the bytes that are there.                  *)
(***************************************************************************)
EXTENDS Integers, Sequences, FiniteSets, TLC

VARIABLES
    input,   \* the Term handed to TermGraph::from
    debug,   \* the build has debug assertions (cfg(debug_assertions))
    mem,     \* the words of memory
    blk,     \* the allocator's state of every block
    ub,      \* undefined behaviour has happened (history)
    pc,      \* where the caller of the TermGraph is
    ret,     \* what the last naive_reduce_step returned
    rule,    \* the rule the last reduce_redex applied
    redex,   \* the field handed to the last reduce_redex and what it held
    steps,   \* the rules applied since the build, and whether each redex was
             \* the first of its scan (history)
    interned, \* the entries of INTERNED: a string's content and its address
    thr,     \* every thread's position in intern / intern_static
    handles, \* the handles returned so far, in the order of return (history)
    heap,    \* the number of strings leaked so far
    text,    \* the characters Display wrote for input
    parsed   \* what parse_term and done made of text

vars == <<input, debug, mem, blk, ub, pc, ret, rule, redex, steps, interned, thr, handles, heap,
          text, parsed>>

\* the variables of the printer and the parser
pvars == <<text, parsed>>

\* the variables of the interner
ivars == <<interned, thr, handles, heap>>

\* the variables of the term graph and its caller
gvars == <<input, debug, mem, blk, ub, pc, ret, rule, redex, steps>>

\* ------------------------------------------------------------ bounds
\* number of blocks the allocator can hand out (the root cell is one)
MaxSlots == 16

\* ------------------------------------------------------------ layout
\* words per allocation block: the largest node, Dup, is 4 words (l, a, b, e)
WordsPerBlock == 4
\* ptr::null_mut()
Null == 0
\* field offsets in words, repr(C)
LamX == 0
LamE == 1
AppE1 == 0
AppE2 == 1
SupL == 0
SupE1 == 1
SupE2 == 2
DupL == 0
DupA == 1
DupB == 2
DupE == 3

\* size_of each node in bytes
SizeOf(kind) ==
    CASE kind = "Lam" -> 16
      [] kind = "App" -> 16
      [] kind = "Sup" -> 24
      [] kind = "Dup" -> 32
      [] OTHER -> 8

Slots == 1..MaxSlots
Addr == WordsPerBlock .. (WordsPerBlock * MaxSlots + WordsPerBlock - 1)
Base(slot) == WordsPerBlock * slot
SlotOf(a) == a \div WordsPerBlock

\* ------------------------------------------------------------ Tagged
Tagged(ptr, tag) == [tag |-> tag, ptr |-> ptr]
new_unused_var == Tagged(Null, "UnusedVar")
new_unbound_var == Tagged(Null, "UnboundVar")
\* a Sup's or Dup's label word (a plain u64)
U64(l) == Tagged(l, "U64")
\* a word that was never written
Uninit == Tagged(Null, "Uninit")

BoundVarTags == {"LamBoundVar", "DupABoundVar", "DupBBoundVar"}
NodePtrTags == {"LamPtr", "AppPtr", "SupPtr", "DupPtr"}
DupRefTags == {"DupABoundVar", "DupBBoundVar", "DupPtr"}

\* ------------------------------------------------------------ terms
Var(x) == [t |-> "Var", x |-> x]
Lam(x, e) == [t |-> "Lam", x |-> x, e |-> e]
App(e1, e2) == [t |-> "App", e1 |-> e1, e2 |-> e2]
Sup(l, e1, e2) == [t |-> "Sup", l |-> l, e1 |-> e1, e2 |-> e2]
Dup(l, a, b, e, cont) == [t |-> "Dup", l |-> l, a |-> a, b |-> b, e |-> e, cont |-> cont]
Let(x, e1, e2) == [t |-> "Let", x |-> x, e1 |-> e1, e2 |-> e2]

\* ------------------------------------------------------------ machine
\* A machine record m carries mem (the words), blk (the allocator's view of
\* each block), fault ("none", "panic", "segv") and ub (undefined behaviour
\* has happened).  Once fault is set nothing more is executed.

IsLive(m, a) == a \in Addr /\ m.blk[SlotOf(a)].st = "live"

\* the effect of one load or store at word a on the flags
access(m, a) ==
    IF m.fault # "none" THEN m
    ELSE IF a \notin Addr THEN [m EXCEPT !.fault = "segv"]
    ELSE IF m.blk[SlotOf(a)].st # "live" THEN [m EXCEPT !.ub = TRUE]
    ELSE m

\* ptr.read()
read(m, a) == IF a \in Addr THEN m.mem[a] ELSE Uninit

\* ptr.write(v)
write(m, a, v) ==
    LET m1 == access(m, a)
    IN  IF m1.fault # "none" THEN m1 ELSE [m1 EXCEPT !.mem[a] = v]

\* panic!, assert!, unreachable!, unwrap on None
panic(m) == IF m.fault # "none" THEN m ELSE [m EXCEPT !.fault = "panic"]

\* std::alloc::alloc: block slot is handed out for a node of this kind
alloc(m, slot, kind) ==
    IF m.fault # "none" THEN m
    ELSE [m EXCEPT !.blk[slot] = [st |-> "live", kind |-> kind]]

\* std::alloc::dealloc with the layout of kind
dealloc(m, p, kind) ==
    IF m.fault # "none" THEN m
    ELSE IF p.ptr \notin Addr THEN [m EXCEPT !.fault = "segv"]
    ELSE LET s == SlotOf(p.ptr)
             bad == \/ m.blk[s].st # "live"
                    \/ SizeOf(m.blk[s].kind) # SizeOf(kind)
                    \/ p.ptr # Base(s)
         IN  [m EXCEPT !.blk[s].st = "freed", !.ub = @ \/ bad]

\* the Lam is left allocated
dealloc_lam_leaked(m, p) == m
dealloc_lam(m, p) == dealloc(m, p, "Lam")
\* the App is left allocated
dealloc_app_leaked(m, p) == m
dealloc_app(m, p) == dealloc(m, p, "App")
dealloc_sup(m, p) == dealloc(m, p, "Sup")
dealloc_dup(m, p) == dealloc(m, p, "Dup")

\* the lowest block never handed out (0 when there is none)
LowestFresh(b) ==
    IF \E s \in Slots : b[s].st = "fresh"
    THEN CHOOSE s \in Slots : b[s].st = "fresh" /\ \A r \in Slots : r < s => b[r].st # "fresh"
    ELSE 0

\* ------------------------------------------------------------ builder
\* var_binders is a function from the keys present in the HashMap to the
\* Vec of binder markers.
vb_push(vb, x, b) ==
    [k \in DOMAIN vb \cup {x} |->
        IF k = x THEN (IF x \in DOMAIN vb THEN Append(vb[x], b) ELSE <<b>>) ELSE vb[k]]

vb_pop(vb, x) ==
    [k \in DOMAIN vb |-> IF k = x THEN SubSeq(vb[x], 1, Len(vb[x]) - 1) ELSE vb[k]]

\* the builder allocates before anything was deallocated: always a fresh block
build_alloc(m, kind) ==
    IF LowestFresh(m.blk) = 0 THEN [m EXCEPT !.fault = "oom"]
    ELSE alloc(m, LowestFresh(m.blk), kind)

\* the builder's variable check skipped
assert_binder_unused_skipped(m, binder_raw_ptr) == m
\* assert_eq!(binder_raw_ptr.read(), Tagged::new_unused_var())
assert_binder_unused(m, binder_raw_ptr) ==
    IF read(m, binder_raw_ptr) # new_unused_var THEN panic(m) ELSE m

\* the builder's name check skipped
assert_ne_names_skipped(m, a, b) == m
\* assert_ne!(a, b)
assert_ne_names(m, a, b) == IF a = b THEN panic(m) ELSE m

\* the builder's liveness check skipped
assert_dup_used_skipped(m, p) == m
\* assert!(dup.a is used || dup.b is used)
assert_dup_used(m, p) ==
    IF m.fault = "none"
       /\ read(m, p + DupA).tag = "UnusedVar"
       /\ read(m, p + DupB).tag = "UnusedVar"
    THEN panic(m)
    ELSE m

RECURSIVE recurse(_, _, _)
recurse(m, storage_ptr, term) ==
    IF m.fault # "none" THEN m
    ELSE CASE term.t = "Var" ->
        IF term.x \in DOMAIN m.var_binders
        THEN IF m.var_binders[term.x] = <<>>
             THEN panic(m)  \* binders.last() is None: unwrap panics
             ELSE LET binder == m.var_binders[term.x][Len(m.var_binders[term.x])]
                      binder_raw_ptr ==
                          CASE binder.tag = "LamBoundVar" -> binder.ptr + LamX
                            [] binder.tag = "DupABoundVar" -> binder.ptr + DupA
                            [] binder.tag = "DupBBoundVar" -> binder.ptr + DupB
                  IN  write(write(assert_binder_unused(m, binder_raw_ptr),
                                  binder_raw_ptr, Tagged(storage_ptr, "VarUsePtr")),
                            storage_ptr, binder)
        ELSE write(m, storage_ptr, new_unbound_var)
      [] term.t = "Lam" ->
        LET p == Base(LowestFresh(m.blk))
            lam_ptr == Tagged(p, "LamPtr")
            m1 == build_alloc(m, "Lam")
            m2 == write(m1, p + LamX, new_unused_var)
            m3 == [m2 EXCEPT !.var_binders = vb_push(@, term.x, Tagged(p, "LamBoundVar"))]
            m4 == recurse(m3, p + LamE, term.e)
            m5 == [m4 EXCEPT !.var_binders = vb_pop(@, term.x)]
        IN  write(m5, storage_ptr, lam_ptr)
      [] term.t = "App" ->
        LET p == Base(LowestFresh(m.blk))
            m1 == build_alloc(m, "App")
            m2 == recurse(m1, p + AppE1, term.e1)
            m3 == recurse(m2, p + AppE2, term.e2)
        IN  write(m3, storage_ptr, Tagged(p, "AppPtr"))
      [] term.t = "Sup" ->
        LET p == Base(LowestFresh(m.blk))
            m1 == build_alloc(m, "Sup")
            m2 == write(m1, p + SupL, U64(term.l))
            m3 == recurse(m2, p + SupE1, term.e1)
            m4 == recurse(m3, p + SupE2, term.e2)
        IN  write(m4, storage_ptr, Tagged(p, "SupPtr"))
      [] term.t = "Dup" ->
        LET p == Base(LowestFresh(m.blk))
            m1 == build_alloc(m, "Dup")
            m2 == write(m1, p + DupL, U64(term.l))
            m3 == assert_ne_names(m2, term.a, term.b)
            m4 == write(write(m3, p + DupA, new_unused_var), p + DupB, new_unused_var)
            m5 == [m4 EXCEPT !.var_binders =
                      vb_push(vb_push(@, term.a, Tagged(p, "DupABoundVar")),
                              term.b, Tagged(p, "DupBBoundVar"))]
            m6 == recurse(m5, p + DupE, term.e)
            m7 == recurse(m6, storage_ptr, term.cont)
            m8 == IF m7.fault # "none" THEN m7
                  ELSE [m7 EXCEPT !.var_binders = vb_pop(vb_pop(@, term.b), term.a)]
        IN  assert_dup_used(m8, p)
      [] term.t = "Let" ->
        LET pa == Base(LowestFresh(m.blk))
            m1 == build_alloc(m, "App")
            pl == Base(LowestFresh(m1.blk))
            m2 == build_alloc(m1, "Lam")
            m3 == write(m2, pl + LamX, new_unused_var)
            m4 == [m3 EXCEPT !.var_binders = vb_push(@, term.x, Tagged(pl, "LamBoundVar"))]
            m5 == recurse(m4, pa + AppE2, term.e1)
            m6 == recurse(m5, pl + LamE, term.e2)
            m7 == IF m6.fault # "none" THEN m6
                  ELSE [m6 EXCEPT !.var_binders = vb_pop(@, term.x)]
            m8 == write(m7, pa + AppE1, Tagged(pl, "LamPtr"))
        IN  write(m8, storage_ptr, Tagged(pa, "AppPtr"))

\* the memory before anything is allocated
EmptyMachine ==
    [mem |-> [a \in Addr |-> Uninit],
     blk |-> [s \in Slots |-> [st |-> "fresh", kind |-> "none"]],
     fault |-> "none",
     ub |-> FALSE]

\* TermGraph::from: allocate the root cell, write the unbound marker, recurse
from(term) ==
    LET root_ptr == Base(LowestFresh(EmptyMachine.blk))
        m0 == [mem |-> EmptyMachine.mem, blk |-> EmptyMachine.blk,
               fault |-> "none", ub |-> FALSE, var_binders |-> <<>>]
        m1 == build_alloc(m0, "Root")
        m2 == write(m1, root_ptr, new_unbound_var)
    IN  recurse(m2, root_ptr, term)

\* the address of the root cell of the graph (TermGraph.0)
RootPtr == Base(1)

\* ------------------------------------------------------------ accessors
\* debug_assert!: checked only in a build with debug assertions
debug_assert(m, cond) == IF debug /\ ~cond THEN panic(m) ELSE m

\* self.var_use(): the field a VarUsePtr points to
var_use(m, self) == debug_assert(m, self.ptr # Null /\ self.tag = "VarUsePtr")

\* lam_e_var_use_ptr without the test for a missing Lam
lam_e_var_use_ptr_always(self) == Tagged(self.ptr + LamE, "VarUsePtr")

lam_e_var_use_ptr(self) ==
    IF self.tag = "UnboundVar" THEN new_unused_var ELSE Tagged(self.ptr + LamE, "VarUsePtr")
app_e1_var_use_ptr(self) ==
    IF self.tag = "UnboundVar" THEN new_unused_var ELSE Tagged(self.ptr + AppE1, "VarUsePtr")
app_e2_var_use_ptr(self) ==
    IF self.tag = "UnboundVar" THEN new_unused_var ELSE Tagged(self.ptr + AppE2, "VarUsePtr")
sup_e1_var_use_ptr(self) ==
    IF self.tag = "UnboundVar" THEN new_unused_var ELSE Tagged(self.ptr + SupE1, "VarUsePtr")
sup_e2_var_use_ptr(self) ==
    IF self.tag = "UnboundVar" THEN new_unused_var ELSE Tagged(self.ptr + SupE2, "VarUsePtr")
dup_e_var_use_ptr(self) ==
    IF self.tag = "UnboundVar" THEN new_unused_var ELSE Tagged(self.ptr + DupE, "VarUsePtr")

lam_bound_var(self) ==
    IF self.tag = "UnusedVar" THEN new_unbound_var ELSE Tagged(self.ptr, "LamBoundVar")
dup_a_bound_var(self) ==
    IF self.tag = "UnusedVar" THEN new_unbound_var ELSE Tagged(self.ptr, "DupABoundVar")
dup_b_bound_var(self) ==
    IF self.tag = "UnusedVar" THEN new_unbound_var ELSE Tagged(self.ptr, "DupBBoundVar")

\* the binder slot a bound-variable marker names
BinderSlot(v) ==
    CASE v.tag = "LamBoundVar" -> v.ptr + LamX
      [] v.tag = "DupABoundVar" -> v.ptr + DupA
      [] v.tag = "DupBBoundVar" -> v.ptr + DupB

\* if_bound_var_move_to with the binder slot left as it was
if_bound_var_move_to_skipped(m, self, var_use_ptr) == m

if_bound_var_move_to(m, self, var_use_ptr) ==
    IF self.tag \in BoundVarTags
    THEN write(debug_assert(m, self.ptr # Null), BinderSlot(self), var_use_ptr)
    ELSE m

\* garbage_collect that leaves everything as it is
garbage_collect_skipped(m, self) == m

garbage_collect(m, self) ==
    CASE self.tag = "UnboundVar" -> m
      [] self.tag = "LamBoundVar" ->
            write(debug_assert(m, self.ptr # Null), self.ptr + LamX, new_unused_var)
      [] self.tag = "DupABoundVar" ->
            LET m1 == write(debug_assert(m, self.ptr # Null), self.ptr + DupA, new_unused_var)
                m2 == access(m1, self.ptr + DupB)
            IN  IF read(m1, self.ptr + DupB).tag = "UnusedVar" THEN dealloc_dup(m2, self) ELSE m2
      [] self.tag = "DupBBoundVar" ->
            LET m1 == write(debug_assert(m, self.ptr # Null), self.ptr + DupB, new_unused_var)
                m2 == access(m1, self.ptr + DupA)
            IN  IF read(m1, self.ptr + DupA).tag = "UnusedVar" THEN dealloc_dup(m2, self) ELSE m2
      [] self.tag = "LamPtr" -> dealloc_lam(m, self)
      [] self.tag = "AppPtr" -> dealloc_app(m, self)
      [] self.tag = "SupPtr" -> dealloc_sup(m, self)
      [] OTHER -> panic(m)  \* unreachable!()

\* Lam { x, e } stored with its fields exchanged
write_lam_swapped(m, p, x, e) == write(write(m, p.ptr + LamX, e), p.ptr + LamE, x)
\* App { e1, e2 } stored with its fields exchanged
write_app_swapped(m, p, e1, e2) == write(write(m, p.ptr + AppE1, e2), p.ptr + AppE2, e1)
\* Sup { l, e1, e2 } stored with e1 and e2 exchanged
write_sup_swapped(m, p, l, e1, e2) ==
    write(write(write(m, p.ptr + SupL, l), p.ptr + SupE1, e2), p.ptr + SupE2, e1)

\* Dup { l, a, b, e } stored with both binder slots unused, as the builder
\* first writes them
write_dup_unused(m, p, l, a, b, e) ==
    write(write(write(write(m, p.ptr + DupL, l), p.ptr + DupA, new_unused_var),
                p.ptr + DupB, new_unused_var), p.ptr + DupE, e)

\* Sup { l, e1, e2 } stored without its label
write_sup_unlabelled(m, p, l, e1, e2) ==
    write(write(m, p.ptr + SupE1, e1), p.ptr + SupE2, e2)

\* ptr.lam().write(Lam { x, e }) and the like: one store per field
write_lam(m, p, x, e) == write(write(m, p.ptr + LamX, x), p.ptr + LamE, e)
write_app(m, p, e1, e2) == write(write(m, p.ptr + AppE1, e1), p.ptr + AppE2, e2)
write_sup(m, p, l, e1, e2) ==
    write(write(write(m, p.ptr + SupL, l), p.ptr + SupE1, e1), p.ptr + SupE2, e2)
write_dup(m, p, l, a, b, e) ==
    write(write(write(write(m, p.ptr + DupL, l), p.ptr + DupA, a), p.ptr + DupB, b),
          p.ptr + DupE, e)

\* debug_assert_eq!(use_ptr.var_use_read(), marker): the load happens only
\* in a build with debug assertions
debug_assert_var_use(m, use_ptr, marker) ==
    IF debug
    THEN LET m1 == access(var_use(m, use_ptr), use_ptr.ptr)
         IN  IF read(m, use_ptr.ptr) = marker THEN m1 ELSE panic(m1)
    ELSE m

\* ------------------------------------------------------------ rules
\* let v = ...; the statements that follow see the value v
Do(v, F(_)) == F(v)

rule_app_lam(m, ptr_ptr, app_ptr, lam_ptr) ==
    LET x_use_ptr == read(m, lam_ptr.ptr + LamX)
        e2 == read(m, app_ptr.ptr + AppE2)
        m1 == access(access(m, lam_ptr.ptr + LamX), app_ptr.ptr + AppE2)
        \* x <- e2
        m2 == IF x_use_ptr.tag = "UnusedVar"
              THEN garbage_collect(m1, e2)
              ELSE LET a1 == debug_assert_var_use(m1, x_use_ptr, lam_bound_var(lam_ptr))
                       a2 == write(var_use(a1, x_use_ptr), x_use_ptr.ptr, e2)
                   IN  if_bound_var_move_to(a2, e2, x_use_ptr)
    IN  Do(m2, LAMBDA s2 :
            LET \* e
                e_ptr == read(s2, lam_ptr.ptr + LamE)
                m3 == write(access(s2, lam_ptr.ptr + LamE), ptr_ptr, e_ptr)
                m4 == if_bound_var_move_to(m3, e_ptr, Tagged(ptr_ptr, "VarUsePtr"))
            IN  dealloc_lam(dealloc_app(m4, app_ptr), lam_ptr))

rule_app_sup(m, ptr_ptr, app_ptr, sup_ptr, al) ==
    LET l == read(m, sup_ptr.ptr + SupL)
        m0 == access(m, sup_ptr.ptr + SupL)
        dup_a_b_ptr == Tagged(Base(al[1]), "DupPtr")
        app_e1_a_ptr == Tagged(Base(al[2]), "AppPtr")
        app_e2_b_ptr == Tagged(Base(al[3]), "AppPtr")
        sup_app_app_ptr == Tagged(Base(al[4]), "SupPtr")
        m1 == alloc(alloc(alloc(alloc(m0, al[1], "Dup"), al[2], "App"), al[3], "App"),
                    al[4], "Sup")
    IN  Do(m1, LAMBDA s1 :
            LET \* dup #l{a b} = e3
                e3 == read(s1, app_ptr.ptr + AppE2)
                m2 == write_dup(access(s1, app_ptr.ptr + AppE2), dup_a_b_ptr, l,
                                app_e2_var_use_ptr(app_e1_a_ptr),
                                app_e2_var_use_ptr(app_e2_b_ptr), e3)
                m3 == if_bound_var_move_to(m2, e3, dup_e_var_use_ptr(dup_a_b_ptr))
            IN  Do(m3, LAMBDA s3 :
                    LET \* (e1 a)
                        e1 == read(s3, sup_ptr.ptr + SupE1)
                        m4 == write_app(access(s3, sup_ptr.ptr + SupE1), app_e1_a_ptr, e1,
                                        dup_a_bound_var(dup_a_b_ptr))
                        m5 == if_bound_var_move_to(m4, e1, app_e1_var_use_ptr(app_e1_a_ptr))
                    IN  Do(m5, LAMBDA s5 :
                            LET \* (e2 b)
                                e2 == read(s5, sup_ptr.ptr + SupE2)
                                m6 == write_app(access(s5, sup_ptr.ptr + SupE2), app_e2_b_ptr,
                                                e2, dup_b_bound_var(dup_a_b_ptr))
                                m7 == if_bound_var_move_to(m6, e2,
                                                           app_e1_var_use_ptr(app_e2_b_ptr))
                                \* #l{(e1 a) (e2 b)}
                                m8 == write_sup(m7, sup_app_app_ptr, l, app_e1_a_ptr,
                                                app_e2_b_ptr)
                                m9 == write(m8, ptr_ptr, sup_app_app_ptr)
                            IN  dealloc_sup(dealloc_app(m9, app_ptr), sup_ptr))))

rule_dup_lam(m, dup_ptr, lam_ptr, al) ==
    LET l == read(m, dup_ptr.ptr + DupL)
        dup_a_b_a == read(m, dup_ptr.ptr + DupA)
        dup_a_b_b == read(m, dup_ptr.ptr + DupB)
        lam_x_e_x == read(m, lam_ptr.ptr + LamX)
        m0 == access(access(access(access(m, dup_ptr.ptr + DupL), dup_ptr.ptr + DupA),
                            dup_ptr.ptr + DupB), lam_ptr.ptr + LamX)
        na == IF dup_a_b_a.tag = "UnusedVar" THEN 0 ELSE 1
        nb == IF dup_a_b_b.tag = "UnusedVar" THEN 0 ELSE 1
        nx == IF lam_x_e_x.tag = "UnusedVar" THEN 0 ELSE 1
        lam_x1_c_ptr == IF na = 0 THEN new_unbound_var ELSE Tagged(Base(al[1]), "LamPtr")
        lam_x2_d_ptr == IF nb = 0 THEN new_unbound_var ELSE Tagged(Base(al[na + 1]), "LamPtr")
        sup_x1_x2_ptr == IF nx = 0 THEN new_unbound_var
                         ELSE Tagged(Base(al[na + nb + 1]), "SupPtr")
        dup_c_d_ptr == Tagged(Base(al[na + nb + nx + 1]), "DupPtr")
        ma == IF na = 0 THEN m0 ELSE alloc(m0, al[1], "Lam")
        mb == IF nb = 0 THEN ma ELSE alloc(ma, al[na + 1], "Lam")
        mx == IF nx = 0 THEN mb ELSE alloc(mb, al[na + nb + 1], "Sup")
        md == debug_assert(mx, na = 1 \/ nb = 1)
        m1 == alloc(md, al[na + nb + nx + 1], "Dup")
        \* a <- (λx1 c)
        m2 == IF na = 0 THEN m1
              ELSE LET a1 == debug_assert_var_use(m1, dup_a_b_a, dup_a_bound_var(dup_ptr))
                       a2 == write(var_use(a1, dup_a_b_a), dup_a_b_a.ptr, lam_x1_c_ptr)
                   IN  write_lam(a2, lam_x1_c_ptr, sup_e1_var_use_ptr(sup_x1_x2_ptr),
                                 dup_a_bound_var(dup_c_d_ptr))
        \* b <- (λx2 d)
        m3 == IF nb = 0 THEN m2
              ELSE LET b1 == debug_assert_var_use(m2, dup_a_b_b, dup_b_bound_var(dup_ptr))
                       b2 == write(var_use(b1, dup_a_b_b), dup_a_b_b.ptr, lam_x2_d_ptr)
                   IN  write_lam(b2, lam_x2_d_ptr, sup_e2_var_use_ptr(sup_x1_x2_ptr),
                                 dup_b_bound_var(dup_c_d_ptr))
        \* x <- #l{x1 x2}
        m4 == IF nx = 0 THEN m3
              ELSE LET x1 == debug_assert(m3, lam_x1_c_ptr.tag # "UnboundVar")
                       x2 == debug_assert(x1, lam_x2_d_ptr.tag # "UnboundVar")
                       x3 == debug_assert_var_use(x2, lam_x_e_x, lam_bound_var(lam_ptr))
                       x4 == write(var_use(x3, lam_x_e_x), lam_x_e_x.ptr, sup_x1_x2_ptr)
                   IN  write_sup(x4, sup_x1_x2_ptr, l, lam_bound_var(lam_x1_c_ptr),
                                 lam_bound_var(lam_x2_d_ptr))
    IN  Do(m4, LAMBDA s4 :
            LET \* dup #l{c d} = e
                e == read(s4, lam_ptr.ptr + LamE)
                m5 == write_dup(access(s4, lam_ptr.ptr + LamE), dup_c_d_ptr, l,
                                lam_e_var_use_ptr(lam_x1_c_ptr),
                                lam_e_var_use_ptr(lam_x2_d_ptr), e)
                m6 == if_bound_var_move_to(m5, e, dup_e_var_use_ptr(dup_c_d_ptr))
            IN  dealloc_lam(dealloc_dup(m6, dup_ptr), lam_ptr))

\* DupSup when the labels are equal, with the two halves handed out crosswise
rule_dup_sup_same_crossed(m1, dup_ptr, sup_ptr, dup_a_b_a, dup_a_b_b) ==
    write(write(m1, dup_a_b_a.ptr, read(m1, sup_ptr.ptr + SupE2)),
          dup_a_b_b.ptr, read(m1, sup_ptr.ptr + SupE1))

\* DupSup when the labels are equal
rule_dup_sup_same(m1, dup_ptr, sup_ptr, dup_a_b_a, dup_a_b_b) ==
    LET \* a <- e1
        e1 == read(m1, sup_ptr.ptr + SupE1)
        s1 == access(m1, sup_ptr.ptr + SupE1)
        s2 == IF dup_a_b_a.tag = "UnusedVar" THEN garbage_collect(s1, e1)
              ELSE LET a1 == debug_assert_var_use(s1, dup_a_b_a, dup_a_bound_var(dup_ptr))
                       a2 == write(var_use(a1, dup_a_b_a), dup_a_b_a.ptr, e1)
                   IN  if_bound_var_move_to(a2, e1, dup_a_b_a)
    IN  Do(s2, LAMBDA t2 :
            LET \* b <- e2
                e2 == read(t2, sup_ptr.ptr + SupE2)
                s3 == access(t2, sup_ptr.ptr + SupE2)
            IN  IF dup_a_b_b.tag = "UnusedVar" THEN garbage_collect(s3, e2)
                ELSE LET b1 == debug_assert_var_use(s3, dup_a_b_b, dup_b_bound_var(dup_ptr))
                         b2 == write(var_use(b1, dup_a_b_b), dup_a_b_b.ptr, e2)
                     IN  if_bound_var_move_to(b2, e2, dup_a_b_b))

\* DupSup when the labels differ
rule_dup_sup_diff(m1, dup_ptr, sup_ptr, dup_a_b_a, dup_a_b_b, l, mm, al) ==
    LET na == IF dup_a_b_a.tag = "UnusedVar" THEN 0 ELSE 1
        nb == IF dup_a_b_b.tag = "UnusedVar" THEN 0 ELSE 1
        sup_a1_a2_ptr == IF na = 0 THEN new_unbound_var ELSE Tagged(Base(al[1]), "SupPtr")
        sup_b1_b2_ptr == IF nb = 0 THEN new_unbound_var ELSE Tagged(Base(al[na + 1]), "SupPtr")
        dup_a1_b1_ptr == Tagged(Base(al[na + nb + 1]), "DupPtr")
        dup_a2_b2_ptr == Tagged(Base(al[na + nb + 2]), "DupPtr")
        da == IF na = 0 THEN m1 ELSE alloc(m1, al[1], "Sup")
        db == IF nb = 0 THEN da ELSE alloc(da, al[na + 1], "Sup")
        d1 == alloc(alloc(db, al[na + nb + 1], "Dup"), al[na + nb + 2], "Dup")
        \* a <- #m{a1 a2}
        d2 == IF na = 0 THEN d1
              ELSE LET a1 == debug_assert_var_use(d1, dup_a_b_a, dup_a_bound_var(dup_ptr))
                       a2 == write(var_use(a1, dup_a_b_a), dup_a_b_a.ptr, sup_a1_a2_ptr)
                   IN  write_sup(a2, sup_a1_a2_ptr, mm, dup_a_bound_var(dup_a1_b1_ptr),
                                 dup_a_bound_var(dup_a2_b2_ptr))
        \* b <- #m{b1 b2}
        d3 == IF nb = 0 THEN d2
              ELSE LET b1 == debug_assert_var_use(d2, dup_a_b_b, dup_b_bound_var(dup_ptr))
                       b2 == write(var_use(b1, dup_a_b_b), dup_a_b_b.ptr, sup_b1_b2_ptr)
                   IN  write_sup(b2, sup_b1_b2_ptr, mm, dup_b_bound_var(dup_a1_b1_ptr),
                                 dup_b_bound_var(dup_a2_b2_ptr))
    IN  Do(d3, LAMBDA t3 :
            LET \* dup #l{a1 b1} = e1
                e1 == read(t3, sup_ptr.ptr + SupE1)
                d4 == write_dup(access(t3, sup_ptr.ptr + SupE1), dup_a1_b1_ptr, l,
                                sup_e1_var_use_ptr(sup_a1_a2_ptr),
                                sup_e1_var_use_ptr(sup_b1_b2_ptr), e1)
                d5 == if_bound_var_move_to(d4, e1, dup_e_var_use_ptr(dup_a1_b1_ptr))
            IN  Do(d5, LAMBDA t5 :
                    LET \* dup #l{a2 b2} = e2
                        e2 == read(t5, sup_ptr.ptr + SupE2)
                        d6 == write_dup(access(t5, sup_ptr.ptr + SupE2), dup_a2_b2_ptr, l,
                                        sup_e2_var_use_ptr(sup_a1_a2_ptr),
                                        sup_e2_var_use_ptr(sup_b1_b2_ptr), e2)
                    IN  if_bound_var_move_to(d6, e2, dup_e_var_use_ptr(dup_a2_b2_ptr))))

rule_dup_sup(m, dup_ptr, sup_ptr, al) ==
    LET l == read(m, dup_ptr.ptr + DupL)
        mm == read(m, sup_ptr.ptr + SupL)
        dup_a_b_a == read(m, dup_ptr.ptr + DupA)
        dup_a_b_b == read(m, dup_ptr.ptr + DupB)
        m0 == access(access(access(access(m, dup_ptr.ptr + DupL), sup_ptr.ptr + SupL),
                            dup_ptr.ptr + DupA), dup_ptr.ptr + DupB)
        m1 == debug_assert(m0, dup_a_b_a.tag # "UnusedVar" \/ dup_a_b_b.tag # "UnusedVar")
        m2 == IF l = mm
              THEN rule_dup_sup_same(m1, dup_ptr, sup_ptr, dup_a_b_a, dup_a_b_b)
              ELSE rule_dup_sup_diff(m1, dup_ptr, sup_ptr, dup_a_b_a, dup_a_b_b, l, mm, al)
    IN  dealloc_sup(dealloc_dup(m2, dup_ptr), sup_ptr)

reduce_redex(m, ptr_ptr, al) ==
    LET ptr == read(m, ptr_ptr)
        m1 == access(m, ptr_ptr)
    IN  CASE ptr.tag = "AppPtr" ->
              LET app_e1 == read(m1, ptr.ptr + AppE1)
                  m2 == access(m1, ptr.ptr + AppE1)
              IN  CASE app_e1.tag = "LamPtr" -> rule_app_lam(m2, ptr_ptr, ptr, app_e1)
                    [] app_e1.tag = "SupPtr" -> rule_app_sup(m2, ptr_ptr, ptr, app_e1, al)
                    [] OTHER -> panic(m2)
          [] ptr.tag \in DupRefTags ->
              LET dup_e == read(m1, ptr.ptr + DupE)
                  m2 == access(m1, ptr.ptr + DupE)
              IN  CASE dup_e.tag = "LamPtr" -> rule_dup_lam(m2, ptr, dup_e, al)
                    [] dup_e.tag = "SupPtr" -> rule_dup_sup(m2, ptr, dup_e, al)
                    [] OTHER -> panic(m2)
          [] OTHER -> panic(m1)

\* ------------------------------------------------------------ scanner
\* a key that tells the fields apart, not the nodes they hold
visited_key_field(ptr_ptr, ptr) == ptr_ptr

\* what visited holds of a field read: ptr.ptr(), the address without the tag
visited_key(ptr_ptr, ptr) == ptr.ptr

\* the fields pushed for the value ptr
Edges(ptr, fields) == {[from |-> ptr, field |-> f] : f \in fields}

\* the App case pushes e1, then e2: the stack pops e2 first
push_app(ptr) == <<ptr.ptr + AppE1, ptr.ptr + AppE2>>

\* a Dup case that looks at e and pushes nothing
push_dup_e_none(ptr) == <<>>

\* the Dup case pushes ptr.dup().e(), for the pointer and for both markers
push_dup_e(ptr) == <<ptr.ptr + DupE>>

\* the loop of collect_redexes: stack, visited (a set of addresses) and the
\* redexes found so far; yields the redexes and the machine after the loads.
\* followed records (history) every field the loop pushed, with the value
\* through which it came to the field's node
RECURSIVE scan_loop(_, _, _, _, _)
scan_loop(m, stack, visited, redexes, followed) ==
    IF stack = <<>> \/ m.fault # "none"
    THEN [redexes |-> redexes, m |-> m, followed |-> followed]
    ELSE LET ptr_ptr == stack[Len(stack)]
             rest == SubSeq(stack, 1, Len(stack) - 1)
             ptr == read(m, ptr_ptr)
             m1 == access(m, ptr_ptr)
             seen == visited \cup {visited_key(ptr_ptr, ptr)}
         IN  IF visited_key(ptr_ptr, ptr) \in visited
             THEN scan_loop(m1, rest, visited, redexes, followed)
             ELSE CASE ptr.tag \in {"UnusedVar", "VarUsePtr", "UnboundVar", "LamBoundVar"} ->
                        scan_loop(m1, rest, seen, redexes, followed)
                    [] ptr.tag = "LamPtr" ->
                        scan_loop(m1, Append(rest, ptr.ptr + LamE), seen, redexes,
                                  followed \cup Edges(ptr, {ptr.ptr + LamE}))
                    [] ptr.tag = "AppPtr" ->
                        scan_loop(access(m1, ptr.ptr + AppE1),
                                  rest \o push_app(ptr), seen,
                                  IF read(m1, ptr.ptr + AppE1).tag \in {"LamPtr", "SupPtr"}
                                  THEN Append(redexes, ptr_ptr) ELSE redexes,
                                  followed \cup Edges(ptr, {ptr.ptr + AppE1, ptr.ptr + AppE2}))
                    [] ptr.tag = "SupPtr" ->
                        scan_loop(m1, rest \o <<ptr.ptr + SupE1, ptr.ptr + SupE2>>, seen,
                                  redexes,
                                  followed \cup Edges(ptr, {ptr.ptr + SupE1, ptr.ptr + SupE2}))
                    [] ptr.tag \in DupRefTags ->
                        scan_loop(access(m1, ptr.ptr + DupE),
                                  rest \o push_dup_e(ptr), seen,
                                  IF read(m1, ptr.ptr + DupE).tag \in {"LamPtr", "SupPtr"}
                                  THEN Append(redexes, ptr_ptr) ELSE redexes,
                                  followed \cup Edges(ptr, {push_dup_e(ptr)[k] :
                                                               k \in 1..Len(push_dup_e(ptr))}))
                    [] OTHER -> [redexes |-> redexes, m |-> [m1 EXCEPT !.ub = TRUE],
                                 followed |-> followed]

\* a scan that reports the root cell whatever it holds
collect_redexes_root(m, root_ptr_ptr) ==
    [redexes |-> <<root_ptr_ptr>>, m |-> m, followed |-> {}]

collect_redexes(m, root_ptr_ptr) == scan_loop(m, <<root_ptr_ptr>>, {}, <<>>, {})

\* ------------------------------------------------------------ allocator
\* the kinds of node reduce_redex allocates at this site, in program order
AllocKinds(m, ptr_ptr) ==
    LET ptr == read(m, ptr_ptr)
    IN  CASE ptr.tag = "AppPtr" ->
              IF read(m, ptr.ptr + AppE1).tag = "SupPtr"
              THEN <<"Dup", "App", "App", "Sup">> ELSE <<>>
          [] ptr.tag \in DupRefTags ->
              LET e == read(m, ptr.ptr + DupE)
                  ka == IF read(m, ptr.ptr + DupA).tag = "UnusedVar" THEN 0 ELSE 1
                  kb == IF read(m, ptr.ptr + DupB).tag = "UnusedVar" THEN 0 ELSE 1
              IN  CASE e.tag = "LamPtr" ->
                        [i \in 1..ka + kb |-> "Lam"]
                        \o (IF read(m, e.ptr + LamX).tag = "UnusedVar" THEN <<>> ELSE <<"Sup">>)
                        \o <<"Dup">>
                    [] e.tag = "SupPtr" ->
                        IF read(m, ptr.ptr + DupL) = read(m, e.ptr + SupL) THEN <<>>
                        ELSE [i \in 1..ka + kb |-> "Sup"] \o <<"Dup", "Dup">>
                    [] OTHER -> <<>>
          [] OTHER -> <<>>

\* the deallocated blocks std::alloc::alloc may hand out again for this kind:
\* those of the same size
Reusable(b, kind) == {s \in Slots : b[s].st = "freed" /\ SizeOf(b[s].kind) = SizeOf(kind)}

\* the block one call of std::alloc::alloc returns: a deallocated block of
\* that size among those the allocator favours (the lowest of them), else the
\* lowest block never handed out (0: the model's memory is exhausted)
AllocOne(b, kind, favoured) ==
    IF Reusable(b, kind) \cap favoured # {}
    THEN CHOOSE s \in Reusable(b, kind) \cap favoured :
             \A r \in Reusable(b, kind) \cap favoured : s <= r
    ELSE LowestFresh(b)

\* the blocks a sequence of alloc calls returns (<<>> when memory is exhausted)
RECURSIVE AllocSeq(_, _, _)
AllocSeq(b, kinds, favoured) ==
    IF kinds = <<>> THEN <<>>
    ELSE LET s == AllocOne(b, Head(kinds), favoured)
             rest == AllocSeq([b EXCEPT ![s] = [st |-> "live", kind |-> Head(kinds)]],
                              Tail(kinds), favoured)
         IN  IF s = 0 \/ Len(rest) # Len(kinds) - 1 THEN <<>> ELSE <<s>> \o rest

\* the allocator's answers to the calls of one reduce_redex.  The system
\* allocator is free to hand out any deallocated block of the right size or
\* new memory; the model lets it favour no deallocated block, or those from
\* any one of them upwards.
AllocChoices(b, kinds) ==
    LET freed == {s \in Slots : b[s].st = "freed"}
    IN  {al \in {AllocSeq(b, kinds, f) :
                    f \in {{}} \cup {{s \in freed : s >= t} : t \in freed}} :
            Len(al) = Len(kinds)}

\* the rule reduce_redex dispatches to at this site
RuleAt(m, ptr_ptr) ==
    LET ptr == read(m, ptr_ptr)
    IN  CASE ptr.tag = "AppPtr" ->
              (CASE read(m, ptr.ptr + AppE1).tag = "LamPtr" -> "AppLam"
                 [] read(m, ptr.ptr + AppE1).tag = "SupPtr" -> "AppSup"
                 [] OTHER -> "unreachable")
          [] ptr.tag \in DupRefTags ->
              (CASE read(m, ptr.ptr + DupE).tag = "LamPtr" -> "DupLam"
                 [] read(m, ptr.ptr + DupE).tag = "SupPtr" ->
                      IF read(m, ptr.ptr + DupL) = read(m, read(m, ptr.ptr + DupE).ptr + SupL)
                      THEN "DupSupSame" ELSE "DupSupDiff"
                 [] OTHER -> "unreachable")
          [] OTHER -> "unreachable"

\* the argument of reduce_redex and the word it reads there
RedexAt(m, ptr_ptr) == [ptr_ptr |-> ptr_ptr, ptr |-> read(m, ptr_ptr)]
\* no reduce_redex was called
NoRedex == [ptr_ptr |-> Null, ptr |-> Uninit]

\* ------------------------------------------------------------ drivers
\* a step that reports true whatever the scan finds
naive_reduce_step_blind(m, al) ==
    LET scan == collect_redexes(m, RootPtr)
    IN  IF scan.redexes = <<>>
        THEN [m |-> scan.m, ret |-> TRUE]
        ELSE [m |-> reduce_redex(scan.m, Head(scan.redexes), al), ret |-> TRUE]

\* naive_reduce_step: al is what the allocator returns to the rule
naive_reduce_step(m, al) ==
    LET scan == collect_redexes(m, RootPtr)
    IN  IF scan.redexes = <<>>
        THEN [m |-> scan.m, ret |-> FALSE]
        ELSE [m |-> reduce_redex(scan.m, Head(scan.redexes), al), ret |-> TRUE]

\* one turn of the loop of naive_random_order_reduce: choose picked redex i
naive_random_order_reduce(m, i, al) ==
    LET scan == collect_redexes(m, RootPtr)
    IN  IF scan.redexes = <<>>
        THEN [m |-> scan.m, ret |-> TRUE]
        ELSE [m |-> reduce_redex(scan.m, scan.redexes[i], al), ret |-> FALSE]

\* while naive_reduce_step() {} with an allocator that hands out new memory
\* only (fault "oom" when the model's memory is exhausted)
RECURSIVE step_until_false(_)
step_until_false(m) ==
    IF m.fault # "none" THEN m
    ELSE LET scan == collect_redexes(m, RootPtr)
             kinds == AllocKinds(scan.m, Head(scan.redexes))
             al == AllocSeq(m.blk, kinds, {})
         IN  IF scan.redexes = <<>> THEN scan.m
             ELSE IF Len(al) # Len(kinds) THEN [m EXCEPT !.fault = "oom"]
             ELSE step_until_false(naive_reduce_step(m, al).m)

\* ------------------------------------------------------------ NodeIter
\* the loop of NodeIter::next run to the end: the nodes in iteration order
RECURSIVE node_iter(_, _, _, _)
node_iter(m, queue, visited, out) ==
    IF queue = <<>> THEN out
    ELSE LET ptr == Head(queue)
             rest == Tail(queue)
             seen == visited \cup {ptr}
         IN  IF ptr \in visited THEN node_iter(m, rest, visited, out)
             ELSE CASE ptr.tag \in {"UnboundVar", "LamBoundVar"} ->
                        node_iter(m, rest, seen, out)
                    [] ptr.tag \in {"DupABoundVar", "DupBBoundVar"} ->
                        node_iter(m, <<Tagged(ptr.ptr, "DupPtr")>> \o rest, seen, out)
                    [] ptr.tag = "LamPtr" ->
                        node_iter(m, Append(rest, read(m, ptr.ptr + LamE)), seen,
                                  Append(out, ptr))
                    [] ptr.tag = "AppPtr" ->
                        node_iter(m, rest \o <<read(m, ptr.ptr + AppE1), read(m, ptr.ptr + AppE2)>>,
                                  seen, Append(out, ptr))
                    [] ptr.tag = "SupPtr" ->
                        node_iter(m, rest \o <<read(m, ptr.ptr + SupE1), read(m, ptr.ptr + SupE2)>>,
                                  seen, Append(out, ptr))
                    [] ptr.tag = "DupPtr" ->
                        node_iter(m, Append(rest, read(m, ptr.ptr + DupE)), seen,
                                  Append(out, ptr))
                    [] OTHER -> out  \* unreachable!()

\* TermGraph::node_iter collected
Nodes(m) == node_iter(m, <<read(m, RootPtr)>>, {}, <<>>)

\* dealloc_any_node with the layout of a Lam for every node
dealloc_any_node_as_lam(m, self) == dealloc_lam(m, self)

\* dealloc_any_node
dealloc_any_node(m, self) ==
    CASE self.tag \in {"LamBoundVar", "LamPtr"} -> dealloc_lam(m, self)
      [] self.tag = "AppPtr" -> dealloc_app(m, self)
      [] self.tag = "SupPtr" -> dealloc_sup(m, self)
      [] self.tag \in DupRefTags -> dealloc_dup(m, self)
      [] OTHER -> panic(m)

\* the load of a whole node (lam_read and the like)
node_read(m, ptr, n) ==
    LET RECURSIVE Loads(_, _)
        Loads(mm, k) == IF k = n THEN mm ELSE Loads(access(mm, ptr.ptr + k), k + 1)
    IN  Loads(m, 0)

\* the loop of Drop: NodeIter::next yields a node after loading it, and the
\* body of the loop deallocates it before the next node is asked for
RECURSIVE drop_loop(_, _, _)
drop_loop(m, queue, visited) ==
    IF queue = <<>> \/ m.fault # "none" THEN m
    ELSE LET ptr == Head(queue)
             rest == Tail(queue)
             seen == visited \cup {ptr}
         IN  IF ptr \in visited THEN drop_loop(m, rest, visited)
             ELSE CASE ptr.tag \in {"UnusedVar", "VarUsePtr"} -> panic(m)
                    [] ptr.tag \in {"UnboundVar", "LamBoundVar"} -> drop_loop(m, rest, seen)
                    [] ptr.tag \in {"DupABoundVar", "DupBBoundVar"} ->
                        drop_loop(m, <<Tagged(ptr.ptr, "DupPtr")>> \o rest, seen)
                    [] ptr.tag = "LamPtr" ->
                        drop_loop(dealloc_any_node(node_read(m, ptr, 2), ptr),
                                  Append(rest, read(m, ptr.ptr + LamE)), seen)
                    [] ptr.tag = "AppPtr" ->
                        drop_loop(dealloc_any_node(node_read(m, ptr, 2), ptr),
                                  rest \o <<read(m, ptr.ptr + AppE1), read(m, ptr.ptr + AppE2)>>,
                                  seen)
                    [] ptr.tag = "SupPtr" ->
                        drop_loop(dealloc_any_node(node_read(m, ptr, 3), ptr),
                                  rest \o <<read(m, ptr.ptr + SupE1), read(m, ptr.ptr + SupE2)>>,
                                  seen)
                    [] ptr.tag = "DupPtr" ->
                        drop_loop(dealloc_any_node(node_read(m, ptr, 4), ptr),
                                  Append(rest, read(m, ptr.ptr + DupE)), seen)
                    [] OTHER -> [m EXCEPT !.ub = TRUE]  \* a word that is no Tagged

\* Drop for TermGraph: the reachable nodes, then the root cell
drop(m) ==
    dealloc(drop_loop(access(m, RootPtr), <<read(m, RootPtr)>>, {}),
            Tagged(RootPtr, "VarUsePtr"), "Root")

\* ((λx z) (λu (u v))): the discarded argument has a node below its top node
T_leak == App(Lam("x", Var("z")), Lam("u", App(Var("u"), Var("v"))))

\* ------------------------------------------------------------ inputs
T_id == Lam("x", Var("x"))
\* (\y ((\x z) (w y))): the argument (w y) is discarded
T_discard == Lam("y", App(Lam("x", Var("z")), App(Var("w"), Var("y"))))
\* dup #0{a b} = \x x; ((\u b) a)
T_dup_half == Dup(0, "a", "b", T_id, App(Lam("u", Var("b")), Var("a")))
\* #0{(dup #0{a b} = \x x; ((\u b) a)) (dup #0{c d} = \z z; (c d))}
T_stale == Sup(0, T_dup_half, Dup(0, "c", "d", Lam("z", Var("z")), App(Var("c"), Var("d"))))
\* dup #0{a b} = \x #0{((\v v) t) (x w)}; #0{a b}
T_hidden == Dup(0, "a", "b",
                Lam("x", Sup(0, App(Lam("v", Var("v")), Var("t")), App(Var("x"), Var("w")))),
                Sup(0, Var("a"), Var("b")))
\* dup #0{a b} = λx #0{((λv v) t) x}; #0{#0{((λp p) q) a} b}: after DupLam and
\* DupSupSame the copy λx2 #0{x1 x2} holds a marker of the copy λx1 ((λv v) t)
T_shadow == Dup(0, "a", "b",
                Lam("x", Sup(0, App(Lam("v", Var("v")), Var("t")), Var("x"))),
                Sup(0, Sup(0, App(Lam("p", Var("p")), Var("q")), Var("a")), Var("b")))
\* λx λy (dup #0{a b} = #1{x y}; (a b)), the term of test_lam_lam_dup_sup_diff
T_diff == Lam("x", Lam("y", Dup(0, "a", "b", Sup(1, Var("x"), Var("y")), App(Var("a"), Var("b")))))
\* λx λy #1{(ax bx) (ay by)} with dup #0{ax bx} = x and dup #0{ay by} = y
T_diff_nf == Lam("x", Lam("y", Dup(0, "ax", "bx", Var("x"), Dup(0, "ay", "by", Var("y"),
                 Sup(1, App(Var("ax"), Var("bx")), App(Var("ay"), Var("by")))))))
\* ((\x x) ((\y y) z)): two AppLam redexes
T_nested == App(T_id, App(Lam("y", Var("y")), Var("z")))
\* ((\y ((\x z) (w y))) u): the inner AppLam discards the use of y
T_applied == App(T_discard, Var("u"))
\* ((\x x) x)
T_reuse_name == App(T_id, Var("x"))

Catalog == <<
    \* the scenario suite
    App(T_id, Var("y")),
    Lam("y", App(T_id, Var("y"))),
    App(Sup(0, Var("x0"), Var("x1")), Var("y")),
    Lam("x", Lam("y", Lam("z", App(Sup(0, Var("x"), Var("y")), Var("z"))))),
    Lam("y", Dup(0, "a", "b", Lam("x", Var("y")), Sup(0, Var("a"), Var("b")))),
    Lam("x", Lam("y", Dup(0, "a", "b", Sup(0, Var("x"), Var("y")), App(Var("a"), Var("b"))))),
    T_diff,
    \* unused binders
    App(Lam("a", App(Var("b"), Var("c"))), Var("d")),
    T_discard,
    Lam("y", Dup(0, "a", "b", Lam("x", Var("y")), Sup(0, Var("z"), Var("b")))),
    Lam("y", Dup(0, "a", "b", Lam("x", Var("y")), Sup(0, Var("a"), Var("z")))),
    Lam("x", Dup(0, "a", "b", Sup(0, Var("x"), Var("y")), Var("b"))),
    Lam("x", Dup(0, "a", "b", Sup(0, Var("x"), Var("y")), Var("a"))),
    Lam("x", Dup(0, "a", "b", Sup(1, Var("x"), Var("y")), Var("b"))),
    Lam("x", Dup(0, "a", "b", Sup(1, Var("x"), Var("y")), Var("a"))),
    T_dup_half,
    Dup(0, "a", "b", T_id, Var("a")),
    T_stale,
    T_hidden,
    T_leak,
    Lam("y", App(Lam("x", Var("z")), Var("y"))),
    Dup(0, "a", "b", Var("w"), App(Lam("x", Var("z")), Var("a"))),
    Dup(0, "a", "b", Sup(0, Var("y"), Var("z")), Var("b")),
    Lam("x", Dup(0, "a", "b", Sup(0, Var("y"), Var("x")), Var("a"))),
    Dup(0, "c", "d", Var("w"), Dup(0, "a", "b", Sup(0, Var("c"), Var("y")), Var("b"))),
    \* more of the tests
    Lam("y", Dup(0, "a", "b", Lam("x", App(Var("x"), Var("y"))), App(Var("a"), Var("b")))),
    App(Lam("x", Dup(0, "x0", "x1", Var("x"), Sup(0, Var("x0"), Var("x1")))), Lam("y", Var("y"))),
    App(Dup(0, "v1", "v2", Var("v0"), Sup(0, Var("v1"), Var("v2"))), Var("v3")),
    \* scoping
    T_reuse_name,
    Lam("x", Lam("x", Var("x"))),
    Lam("x", App(T_id, Var("x"))),
    Let("x", Var("y"), Var("x")),
    Let("x", Var("x"), Var("y")),
    Lam("x", Let("x", Var("x"), Var("y"))),
    Dup(0, "a", "b", Var("a"), Var("b")),
    T_shadow,
    \* without duplication
    T_nested,
    T_applied,
    Let("f", T_id, App(Var("f"), Var("z"))),
    \* rejected terms
    Lam("x", App(Var("x"), Var("x"))),
    Let("x", Var("y"), Sup(0, Var("x"), Var("x"))),
    Dup(0, "a", "b", Var("y"), App(Var("a"), App(Var("b"), Var("a")))),
    Dup(0, "a", "b", Var("y"), Var("z")),
    Lam("y", Dup(0, "a", "a", Var("y"), Var("a"))),
    Dup(0, "a", "a", Var("y"), Var("z"))
>>

\* the terms handed to TermGraph::from
Inputs == {Catalog[i] : i \in 1..Len(Catalog)}

\* the terms of depth two over two names and one label
Names == {"x", "y"}
Grow(S) ==
    S \cup {Lam(n, e) : n \in Names, e \in S}
      \cup {App(e1, e2) : e1 \in S, e2 \in S}
      \cup {Sup(0, e1, e2) : e1 \in S, e2 \in S}
      \cup UNION {{Dup(0, a, b, e1, e2) : e1 \in S, e2 \in S} : a \in Names, b \in Names}
      \cup {Let(n, e1, e2) : n \in Names, e1 \in S, e2 \in S}
SmallTerms == Grow(Grow({Var(n) : n \in Names}))

\* ------------------------------------------------------------ scoping
\* The builder's resolution of names, read off its var_binders stack: Lam x
\* binds x in e; Let x binds x in e1 and e2; Dup a b binds a and b in e and
\* cont; the innermost binder wins.

\* the occurrences of name x in term that resolve to a binder outside term
RECURSIVE Uses(_, _)
Uses(term, x) ==
    CASE term.t = "Var" -> IF term.x = x THEN 1 ELSE 0
      [] term.t = "Lam" -> IF term.x = x THEN 0 ELSE Uses(term.e, x)
      [] term.t = "App" -> Uses(term.e1, x) + Uses(term.e2, x)
      [] term.t = "Sup" -> Uses(term.e1, x) + Uses(term.e2, x)
      [] term.t = "Dup" -> IF x \in {term.a, term.b} THEN 0
                           ELSE Uses(term.e, x) + Uses(term.cont, x)
      [] term.t = "Let" -> IF term.x = x THEN 0
                           ELSE Uses(term.e1, x) + Uses(term.e2, x)

\* the occurrences in term of names outside bound with no binder in term
RECURSIVE FreeOccurrences(_, _)
FreeOccurrences(term, bound) ==
    CASE term.t = "Var" -> IF term.x \in bound THEN 0 ELSE 1
      [] term.t = "Lam" -> FreeOccurrences(term.e, bound \cup {term.x})
      [] term.t = "App" -> FreeOccurrences(term.e1, bound) + FreeOccurrences(term.e2, bound)
      [] term.t = "Sup" -> FreeOccurrences(term.e1, bound) + FreeOccurrences(term.e2, bound)
      [] term.t = "Dup" -> FreeOccurrences(term.e, bound \cup {term.a, term.b})
                           + FreeOccurrences(term.cont, bound \cup {term.a, term.b})
      [] term.t = "Let" -> FreeOccurrences(term.e1, bound \cup {term.x})
                           + FreeOccurrences(term.e2, bound \cup {term.x})

RECURSIVE Subterms(_)
Subterms(term) ==
    {term} \cup
    CASE term.t = "Var" -> {}
      [] term.t = "Lam" -> Subterms(term.e)
      [] term.t = "Dup" -> Subterms(term.e) \cup Subterms(term.cont)
      [] OTHER -> Subterms(term.e1) \cup Subterms(term.e2)

\* the occurrences that resolve to binder name x of the Dup or Let term s
BoundUses(s, x) ==
    IF s.t = "Dup" THEN Uses(s.e, x) + Uses(s.cont, x) ELSE Uses(s.e1, x) + Uses(s.e2, x)

\* two occurrences resolve to the same binder
NonAffine(term) ==
    \E s \in Subterms(term) :
        \/ s.t = "Lam" /\ Uses(s.e, s.x) >= 2
        \/ s.t = "Let" /\ BoundUses(s, s.x) >= 2
        \/ s.t = "Dup" /\ (BoundUses(s, s.a) >= 2 \/ BoundUses(s, s.b) >= 2)

\* a Dup neither of whose binders has an occurrence
DupBothDead(term) ==
    \E s \in Subterms(term) :
        s.t = "Dup" /\ BoundUses(s, s.a) = 0 /\ BoundUses(s, s.b) = 0

\* a Dup whose two binder names are the same name
DupSameName(term) == \E s \in Subterms(term) : s.t = "Dup" /\ s.a = s.b

\* ------------------------------------------------------------ the graph
NodeKinds == {"Lam", "App", "Sup", "Dup"}

\* the offsets of the fields of a node that carry a subterm (a NodeRef)
SubtermOffsets(kind) ==
    CASE kind = "Lam" -> {LamE}
      [] kind = "App" -> {AppE1, AppE2}
      [] kind = "Sup" -> {SupE1, SupE2}
      [] kind = "Dup" -> {DupE}
      [] OTHER -> {}

\* the offsets of the binder slots of a node (a FieldRef)
BinderOffsets(kind) ==
    CASE kind = "Lam" -> {LamX}
      [] kind = "Dup" -> {DupA, DupB}
      [] OTHER -> {}

\* the allocated nodes
LiveNodes == {s \in Slots : blk[s].st = "live" /\ blk[s].kind \in NodeKinds}

\* every NodeRef field: the root cell and the subterm fields of allocated nodes
NodeRefFields ==
    {RootPtr} \cup UNION {{Base(s) + o : o \in SubtermOffsets(blk[s].kind)} : s \in LiveNodes}

\* every binder slot of an allocated node
BinderSlots ==
    UNION {{Base(s) + o : o \in BinderOffsets(blk[s].kind)} : s \in LiveNodes}

\* the bound-variable marker that names the binder slot at address a
MarkerOf(a) ==
    LET s == SlotOf(a)
    IN  CASE blk[s].kind = "Lam" -> Tagged(Base(s), "LamBoundVar")
          [] a = Base(s) + DupA -> Tagged(Base(s), "DupABoundVar")
          [] OTHER -> Tagged(Base(s), "DupBBoundVar")

\* a graph exists and no operation on it has aborted
GraphOk == pc \in {"idle", "reduce"}

\* ------------------------------------------------------------ printer
\* a text is a sequence of characters, a name the sequence of its characters
DigitChars == <<"0", "1", "2", "3", "4", "5", "6", "7", "8", "9">>

\* Display for u64: the decimal digits, no leading zero
RECURSIVE fmt_u64(_)
fmt_u64(n) ==
    IF n < 10 THEN <<DigitChars[n + 1]>>
    ELSE fmt_u64(n \div 10) \o <<DigitChars[(n % 10) + 1]>>

\* Display for Term
RECURSIVE fmt(_)
fmt(term) ==
    CASE term.t = "Var" -> term.x
      [] term.t = "Lam" ->
            <<"(", "λ">> \o term.x \o <<" ">> \o fmt(term.e) \o <<")">>
      [] term.t = "App" ->
            <<"(">> \o fmt(term.e1) \o <<" ">> \o fmt(term.e2) \o <<")">>
      [] term.t = "Sup" ->
            <<"#">> \o fmt_u64(term.l) \o <<"{">> \o fmt(term.e1) \o <<" ">>
            \o fmt(term.e2) \o <<"}">>
      [] term.t = "Dup" ->
            <<"(", "d", "u", "p", " ", "#">> \o fmt_u64(term.l) \o <<"{">> \o term.a
            \o <<" ">> \o term.b \o <<"}", " ", "=", " ">> \o fmt(term.e) \o <<";", " ">>
            \o fmt(term.cont) \o <<")">>
      [] term.t = "Let" ->
            <<"(", "l", "e", "t", " ">> \o term.x \o <<" ", "=", " ">> \o fmt(term.e1)
            \o <<";", " ">> \o fmt(term.e2) \o <<")">>

\* ------------------------------------------------------------ parser
LowerChars == {"a", "b", "c", "d", "e", "f", "g", "h", "i", "j", "k", "l", "m",
               "n", "o", "p", "q", "r", "s", "t", "u", "v", "w", "x", "y", "z"}
UpperChars == {"A", "B", "C", "D", "E", "F", "G", "H", "I", "J", "K", "L", "M",
               "N", "O", "P", "Q", "R", "S", "T", "U", "V", "W", "X", "Y", "Z"}
\* the characters of a name after the first
NameChars == LowerChars \cup UpperChars \cup {"_"}
                 \cup {DigitChars[k] : k \in 1..10}
Whitespace == {" ", "\n", "\t"}

\* no term
None == [t |-> "None"]

\* parser::Answer: Ok((state, value)) with the position of the state, or Err.
\* some tells Some(value) from None in the answers of the alternatives
Ok(pos, val) == [ok |-> TRUE, pos |-> pos, some |-> TRUE, val |-> val]
Unmatched(pos) == [ok |-> TRUE, pos |-> pos, some |-> FALSE, val |-> None]
Err(pos) == [ok |-> FALSE, pos |-> pos, some |-> FALSE, val |-> None]

\* the ? operator: go on with an Ok answer, return an Err
Then(r, F(_)) == Do(r, LAMBDA v : IF v.ok THEN F(v) ELSE Err(v.pos))

\* parser::head
head(txt, i) == IF i <= Len(txt) THEN txt[i] ELSE ""

\* parser::skip: the position after the whitespace at i
RECURSIVE skip(_, _)
skip(txt, i) == IF head(txt, i) \in Whitespace THEN skip(txt, i + 1) ELSE i

\* the text at i starts with pat
starts_with(txt, i, pat) ==
    /\ i + Len(pat) - 1 <= Len(txt)
    /\ SubSeq(txt, i, i + Len(pat) - 1) = pat

\* parser::text: skip, then take pat if it is there
text_here(pat, txt, i) ==
    Do(skip(txt, i), LAMBDA j :
        IF starts_with(txt, j, pat) THEN Ok(j + Len(pat), TRUE) ELSE Ok(j, FALSE))

\* parser::consume: text, and an error when pat is not there
consume(pat, txt, i) ==
    Do(text_here(pat, txt, i), LAMBDA r : IF r.val THEN r ELSE Err(r.pos))

\* the position after the name characters at i
RECURSIVE name_end(_, _)
name_end(txt, i) == IF head(txt, i) \in NameChars THEN name_end(txt, i + 1) ELSE i

\* parser::name: skip, then the (possibly empty) run of name characters
name(txt, i) ==
    Do(skip(txt, i), LAMBDA j :
        Do(name_end(txt, j), LAMBDA k : Ok(k, SubSeq(txt, j, k - 1))))

\* parser::name1: a name of one character at least
name1(txt, i) ==
    Do(name(txt, i), LAMBDA r : IF r.val = <<>> THEN Err(r.pos) ELSE r)

\* parser::guard: skip, look ahead for the head; the body parses from the
\* same place and its error is the error of the parse
guard(matched, j, body) == IF matched THEN body ELSE Unmatched(j)

\* parser::grammar: the first alternative that answers Some or Err
RECURSIVE grammar(_, _)
grammar(alts, i) ==
    IF alts = <<>> THEN Err(i)
    ELSE IF ~Head(alts).ok \/ Head(alts).some THEN Head(alts)
    ELSE grammar(Tail(alts), i)

\* parser::done: nothing but whitespace is left
done(txt, i) == skip(txt, i) > Len(txt)

\* num_here: the digits right at the cursor
RECURSIVE num_here(_, _, _)
num_here(txt, i, digits) ==
    IF \E k \in 1..10 : DigitChars[k] = head(txt, i)
    THEN num_here(txt, i + 1, Append(digits, head(txt, i)))
    ELSE Ok(i, digits)

\* str::parse::<u64>: the value of a non-empty run of digits (a u64 written
\* by Display has at most 20 digits and is in range)
RECURSIVE parse_u64(_, _)
parse_u64(digits, acc) ==
    IF digits = <<>> THEN acc
    ELSE parse_u64(Tail(digits),
                   10 * acc + (CHOOSE d \in 0..9 : DigitChars[d + 1] = Head(digits)))

\* parse_label
parse_label(txt, i) ==
    Then(consume(<<"#">>, txt, i), LAMBDA h :
    Then(num_here(txt, h.pos, <<>>), LAMBDA n :
        IF n.val = <<>> THEN Err(n.pos) ELSE Ok(n.pos, parse_u64(n.val, 0))))

\* args.into_iter().reduce(|a, b| App(a, b))
RECURSIVE reduce_app(_, _)
reduce_app(acc, args) ==
    IF args = <<>> THEN acc ELSE reduce_app(App(acc, Head(args)), Tail(args))

RECURSIVE parse_term(_, _)
RECURSIVE list_elems(_, _, _)

\* parse_var
parse_var(txt, i) ==
    Do(skip(txt, i), LAMBDA j :
        guard(head(txt, j) \in LowerChars \cup {"_", "$"}, j,
              Then(name(txt, j), LAMBDA n : Ok(n.pos, Var(n.val)))))

\* parse_lam
parse_lam(txt, i) ==
    Do(skip(txt, i), LAMBDA j :
        guard(head(txt, j) \in {"λ", "@"}, j,
              Then(name(txt, j + 1), LAMBDA n :
              Then(parse_term(txt, n.pos), LAMBDA b : Ok(b.pos, Lam(n.val, b.val))))))

\* parser::list with the separator "": elements up to the closing text
list_elems(txt, i, args) ==
    Do(text_here(<<")">>, txt, i), LAMBDA c :
        IF c.val THEN Ok(c.pos, args)
        ELSE Then(parse_term(txt, i), LAMBDA e :
                 list_elems(txt, e.pos, Append(args, e.val))))

\* parse_app: todo!() on the empty list
parse_app(txt, i) ==
    Do(skip(txt, i), LAMBDA j :
        guard(head(txt, j) = "(", j,
              Then(list_elems(txt, j + 1, <<>>), LAMBDA l :
                  IF l.val = <<>> THEN Err(l.pos)
                  ELSE Ok(l.pos, reduce_app(Head(l.val), Tail(l.val))))))

\* parse_sup
parse_sup(txt, i) ==
    Do(skip(txt, i), LAMBDA j :
        guard(head(txt, j) = "#", j,
              Then(parse_label(txt, j), LAMBDA l :
              Then(consume(<<"{">>, txt, l.pos), LAMBDA o :
              Then(parse_term(txt, o.pos), LAMBDA v0 :
              Then(parse_term(txt, v0.pos), LAMBDA v1 :
              Then(consume(<<"}">>, txt, v1.pos), LAMBDA c :
                  Ok(c.pos, Sup(l.val, v0.val, v1.val)))))))))

\* parse_dup
parse_dup(txt, i) ==
    Do(skip(txt, i), LAMBDA j :
        guard(starts_with(txt, j, <<"d", "u", "p", " ">>), j,
              Then(consume(<<"d", "u", "p", " ">>, txt, j), LAMBDA k :
              Then(parse_label(txt, k.pos), LAMBDA l :
              Then(consume(<<"{">>, txt, l.pos), LAMBDA o :
              Then(name1(txt, o.pos), LAMBDA n0 :
              Then(name1(txt, n0.pos), LAMBDA n1 :
              Then(consume(<<"}">>, txt, n1.pos), LAMBDA c :
              Then(consume(<<"=">>, txt, c.pos), LAMBDA q :
              Then(parse_term(txt, q.pos), LAMBDA e :
              Then(consume(<<";">>, txt, e.pos), LAMBDA s :
              Then(parse_term(txt, s.pos), LAMBDA b :
                  Ok(b.pos, Dup(l.val, n0.val, n1.val, e.val, b.val))))))))))))))

\* parse_let
parse_let(txt, i) ==
    Do(skip(txt, i), LAMBDA j :
        guard(starts_with(txt, j, <<"l", "e", "t", " ">>), j,
              Then(consume(<<"l", "e", "t", " ">>, txt, j), LAMBDA k :
              Then(name1(txt, k.pos), LAMBDA n :
              Then(consume(<<"=">>, txt, n.pos), LAMBDA q :
              Then(parse_term(txt, q.pos), LAMBDA e :
              Then(consume(<<";">>, txt, e.pos), LAMBDA s :
              Then(parse_term(txt, s.pos), LAMBDA b :
                  Ok(b.pos, Let(n.val, e.val, b.val))))))))))

\* parse_term: the alternatives in their order
parse_term(txt, i) ==
    grammar(<<parse_let(txt, i), parse_dup(txt, i), parse_lam(txt, i),
              parse_app(txt, i), parse_sup(txt, i), parse_var(txt, i)>>, i)

\* parse_term(state).unwrap() and done(state), as the tests call them
parse(txt) ==
    Do(parse_term(txt, 1), LAMBDA r :
        [ok |-> r.ok, done |-> r.ok /\ done(txt, r.pos), term |-> r.val])

NoAnswer == [ok |-> FALSE, done |-> FALSE, term |-> None]

\* nothing is printed or parsed
ParseInit ==
    /\ text = <<>>
    /\ parsed = NoAnswer

\* ------------------------------------------------------------ interner
\* the threads that call the interner, and the calls they make in all
Threads == {1, 2}
MaxCalls == 3

\* the string contents that are interned
Contents == {"x", "y"}

\* the addresses of the 'static strs of one content (two literals of equal
\* content need not be one object), and of the n-th leaked box
StaticAddrs(s) == IF s = "x" THEN {11, 12} ELSE {21, 22}
LeakedAddr(n) == 100 + n

\* HashSet::get with content lookup that finds nothing
get_none(set, s) == {}

\* HashSet::get: the entry whose content equals s, if there is one
get(set, s) == {e \in set : e.content = s}

\* HashSet::insert: the set keeps the entry it has when the contents are equal
insert(set, e) == IF get(set, e.content) # {} THEN set ELSE set \cup {e}

\* IStr(s)
IStr(s, addr) == [content |-> s, addr |-> addr]

\* no call is in progress and nothing is interned
InternInit ==
    /\ interned = {}
    /\ thr = [t \in Threads |-> [pc |-> "idle", fn |-> "none", s |-> "", addr |-> 0]]
    /\ handles = <<>>
    /\ heap = 0

\* the calls begun so far
Calls == Len(handles) + Cardinality({t \in Threads : thr[t].pc # "idle"})

\* s.intern() is entered with a string of content s
InternCall(t) ==
    /\ thr[t].pc = "idle" /\ Calls < MaxCalls
    /\ \E s \in Contents :
          thr' = [thr EXCEPT ![t] = [pc |-> "read", fn |-> "intern", s |-> s, addr |-> 0]]
    /\ UNCHANGED <<interned, handles, heap>>
    /\ UNCHANGED gvars
    /\ UNCHANGED pvars

\* s.intern_static() is entered with a 'static str of content s
InternStaticCall(t) ==
    /\ thr[t].pc = "idle" /\ Calls < MaxCalls
    /\ \E s \in Contents : \E a \in StaticAddrs(s) :
          thr' = [thr EXCEPT ![t] = [pc |-> "read", fn |-> "intern_static", s |-> s,
                                     addr |-> a]]
    /\ UNCHANGED <<interned, handles, heap>>
    /\ UNCHANGED gvars
    /\ UNCHANGED pvars

\* INTERNED.read().unwrap().get(s): return the entry found, or go on
ReadGet(t) ==
    /\ thr[t].pc = "read"
    /\ \E found \in {get(interned, thr[t].s)} :
          IF found # {}
          THEN /\ handles' = Append(handles, CHOOSE e \in found : TRUE)
               /\ thr' = [thr EXCEPT ![t].pc = "idle"]
          ELSE /\ handles' = handles
               /\ thr' = [thr EXCEPT ![t].pc = "write"]
    /\ UNCHANGED <<interned, heap>>
    /\ UNCHANGED gvars
    /\ UNCHANGED pvars

\* intern after the miss: Box::leak, INTERNED.write().unwrap().insert(s),
\* return IStr(s) of the leaked string
WriteInsertLeaked(t) ==
    /\ thr[t].pc = "write" /\ thr[t].fn = "intern"
    /\ heap' = heap + 1
    /\ interned' = insert(interned, IStr(thr[t].s, LeakedAddr(heap + 1)))
    /\ handles' = Append(handles, IStr(thr[t].s, LeakedAddr(heap + 1)))
    /\ thr' = [thr EXCEPT ![t].pc = "idle"]
    /\ UNCHANGED gvars
    /\ UNCHANGED pvars

\* intern_static after the miss: INTERNED.write().unwrap().insert(self),
\* return IStr(self)
WriteInsertStatic(t) ==
    /\ thr[t].pc = "write" /\ thr[t].fn = "intern_static"
    /\ interned' = insert(interned, IStr(thr[t].s, thr[t].addr))
    /\ handles' = Append(handles, IStr(thr[t].s, thr[t].addr))
    /\ thr' = [thr EXCEPT ![t].pc = "idle"]
    /\ UNCHANGED heap
    /\ UNCHANGED gvars
    /\ UNCHANGED pvars

NextIntern ==
    \/ \E t \in Threads : InternCall(t)
    \/ \E t \in Threads : InternStaticCall(t)
    \/ \E t \in Threads : ReadGet(t)
    \/ \E t \in Threads : WriteInsertLeaked(t)
    \/ \E t \in Threads : WriteInsertStatic(t)

\* ------------------------------------------------------------ state machine
Machine == [mem |-> mem, blk |-> blk, fault |-> "none", ub |-> ub]

Init ==
    /\ input \in Inputs
    /\ debug \in BOOLEAN
    /\ mem = EmptyMachine.mem
    /\ blk = EmptyMachine.blk
    /\ ub = FALSE
    /\ pc = "start"
    /\ ret = "none"
    /\ rule = "none"
    /\ redex = NoRedex
    /\ steps = <<>>
    /\ InternInit
    /\ ParseInit

\* the caller's position after an operation that ended in machine m
After(m, next) == IF m.fault = "none" THEN next ELSE m.fault

\* TermGraph::from(&term)
Build ==
    /\ pc = "start"
    /\ LET m == from(input)
       IN  /\ m.fault # "oom"
           /\ mem' = m.mem
           /\ blk' = m.blk
           /\ ub' = m.ub
           /\ pc' = IF m.fault = "none" THEN "idle" ELSE "failed"
    /\ UNCHANGED <<input, debug, ret, rule, redex, steps>>
    /\ UNCHANGED ivars
    /\ UNCHANGED pvars

\* TermGraph::naive_reduce_step when the scan is empty
StepFalse ==
    /\ pc = "idle"
    /\ collect_redexes(Machine, RootPtr).redexes = <<>>
    /\ \E r \in {naive_reduce_step(Machine, <<>>)} :
           /\ ub' = r.m.ub
           /\ pc' = After(r.m, "idle")
           /\ ret' = IF r.ret THEN "true" ELSE "false"
           /\ mem' = r.m.mem
           /\ blk' = r.m.blk
    /\ rule' = "none"
    /\ redex' = NoRedex
    /\ steps' = steps
    /\ UNCHANGED <<input, debug>>
    /\ UNCHANGED ivars
    /\ UNCHANGED pvars

\* TermGraph::naive_reduce_step when the scan finds a redex
StepTrue ==
    /\ pc = "idle"
    /\ LET scan == collect_redexes(Machine, RootPtr)
       IN  /\ scan.redexes # <<>>
           /\ \E al \in AllocChoices(blk, AllocKinds(scan.m, Head(scan.redexes))) :
                \E r \in {naive_reduce_step(Machine, al)} :
                    /\ mem' = r.m.mem
                    /\ blk' = r.m.blk
                    /\ ub' = r.m.ub
                    /\ pc' = After(r.m, "idle")
                    /\ ret' = IF r.m.fault # "none" THEN "none"
                              ELSE IF r.ret THEN "true" ELSE "false"
           /\ rule' = RuleAt(scan.m, Head(scan.redexes))
           /\ redex' = RedexAt(scan.m, Head(scan.redexes))
           /\ steps' = Append(steps, [rule |-> RuleAt(scan.m, Head(scan.redexes)),
                                       first |-> TRUE])
    /\ UNCHANGED <<input, debug>>
    /\ UNCHANGED ivars
    /\ UNCHANGED pvars

\* TermGraph::naive_random_order_reduce is entered
ReduceCall ==
    /\ pc = "idle"
    /\ pc' = "reduce"
    /\ ret' = "none"
    /\ rule' = "none"
    /\ redex' = NoRedex
    /\ steps' = steps
    /\ UNCHANGED <<input, debug, mem, blk, ub>>
    /\ UNCHANGED ivars
    /\ UNCHANGED pvars

\* one turn of its loop: any redex of the scan is reduced
ReduceLoop ==
    /\ pc = "reduce"
    /\ LET scan == collect_redexes(Machine, RootPtr)
       IN  \E i \in 1..Len(scan.redexes) :
             /\ \E al \in AllocChoices(blk, AllocKinds(scan.m, scan.redexes[i])) :
                  \E r \in {naive_random_order_reduce(Machine, i, al)} :
                      /\ mem' = r.m.mem
                      /\ blk' = r.m.blk
                      /\ ub' = r.m.ub
                      /\ pc' = After(r.m, IF r.ret THEN "idle" ELSE "reduce")
             /\ rule' = RuleAt(scan.m, scan.redexes[i])
             /\ redex' = RedexAt(scan.m, scan.redexes[i])
             /\ steps' = Append(steps, [rule |-> RuleAt(scan.m, scan.redexes[i]),
                                         first |-> i = 1])
    /\ UNCHANGED <<input, debug, ret>>
    /\ UNCHANGED ivars
    /\ UNCHANGED pvars

\* its loop finds the scan empty and returns
ReduceReturn ==
    /\ pc = "reduce"
    /\ collect_redexes(Machine, RootPtr).redexes = <<>>
    /\ \E r \in {naive_random_order_reduce(Machine, 1, <<>>)} :
           /\ ub' = r.m.ub
           /\ pc' = After(r.m, IF r.ret THEN "idle" ELSE "reduce")
           /\ mem' = r.m.mem
           /\ blk' = r.m.blk
    /\ ret' = "unit"
    /\ rule' = "none"
    /\ redex' = NoRedex
    /\ steps' = steps
    /\ UNCHANGED <<input, debug>>
    /\ UNCHANGED ivars
    /\ UNCHANGED pvars

\* the TermGraph goes out of scope after one of its operations has returned
Drop ==
    /\ pc = "idle"
    /\ \E r \in {drop(Machine)} :
           /\ mem' = r.mem
           /\ blk' = r.blk
           /\ ub' = r.ub
           /\ pc' = After(r, "dropped")
    /\ ret' = "drop"
    /\ rule' = "none"
    /\ redex' = NoRedex
    /\ steps' = steps
    /\ UNCHANGED <<input, debug>>
    /\ UNCHANGED ivars
    /\ UNCHANGED pvars

Next ==
    \/ Build
    \/ StepFalse
    \/ StepTrue
    \/ ReduceCall
    \/ ReduceLoop
    \/ ReduceReturn
    \/ Drop

Spec == Init /\ [][Next]_vars

\* the builder alone, on every small term
InitBuild ==
    /\ input \in SmallTerms
    /\ debug \in BOOLEAN
    /\ mem = EmptyMachine.mem
    /\ blk = EmptyMachine.blk
    /\ ub = FALSE
    /\ pc = "start"
    /\ ret = "none"
    /\ rule = "none"
    /\ redex = NoRedex
    /\ steps = <<>>
    /\ InternInit
    /\ ParseInit

NextBuild == Build

SpecBuild == InitBuild /\ [][NextBuild]_vars

\* the interner alone: no term graph is built
InitIntern ==
    /\ input = Var("x")
    /\ debug = FALSE
    /\ mem = EmptyMachine.mem
    /\ blk = EmptyMachine.blk
    /\ ub = FALSE
    /\ pc = "none"
    /\ ret = "none"
    /\ rule = "none"
    /\ redex = NoRedex
    /\ steps = <<>>
    /\ InternInit
    /\ ParseInit

SpecIntern == InitIntern /\ [][NextIntern]_vars

\* the printer and the parser: the terms of the round trip
MaxLabel == 10
ParseLabels == {0, MaxLabel}
ParseNames == {<<"x">>, <<"_", "B", "0">>, <<"l", "e", "t">>, <<"d", "u", "p">>}

\* the terms of S and the terms with one constructor above terms of S
GrowTerms(S, N, L) ==
    S \cup {Lam(x, e) : x \in N, e \in S}
      \cup {App(e1, e2) : e1 \in S, e2 \in S}
      \cup {Sup(l, e1, e2) : l \in L, e1 \in S, e2 \in S}
      \cup UNION {{Dup(l, a, b, e, k) : l \in L, a \in N, b \in N} : e \in S, k \in S}
      \cup {Let(x, e1, e2) : x \in N, e1 \in S, e2 \in S}

ParseTerms ==
    GrowTerms({Var(n) : n \in ParseNames}, ParseNames, ParseLabels)
      \cup GrowTerms(GrowTerms({Var(<<"x">>), Var(<<"l", "e", "t">>)}, {<<"x">>}, {0}),
                     {<<"x">>}, {MaxLabel})

InitParse ==
    /\ input \in ParseTerms
    /\ debug = FALSE
    /\ mem = EmptyMachine.mem
    /\ blk = EmptyMachine.blk
    /\ ub = FALSE
    /\ pc = "format"
    /\ ret = "none"
    /\ rule = "none"
    /\ redex = NoRedex
    /\ steps = <<>>
    /\ InternInit
    /\ ParseInit

\* let input = format!("{}", term)
Format ==
    /\ pc = "format"
    /\ text' = fmt(input)
    /\ pc' = "parse"
    /\ UNCHANGED <<input, debug, mem, blk, ub, ret, rule, redex, steps, parsed>>
    /\ UNCHANGED ivars

\* parse_term(State::new(&input)).unwrap(), then done(state)
Parse ==
    /\ pc = "parse"
    /\ parsed' = parse(text)
    /\ pc' = "parsed"
    /\ UNCHANGED <<input, debug, mem, blk, ub, ret, rule, redex, steps, text>>
    /\ UNCHANGED ivars

NextParse ==
    \/ Format
    \/ Parse

SpecParse == InitParse /\ [][NextParse]_vars

\* the interner called from one thread: every call returns before the next
NextInternSeq ==
    \/ InternCall(1)
    \/ InternStaticCall(1)
    \/ ReadGet(1)
    \/ WriteInsertLeaked(1)
    \/ WriteInsertStatic(1)

SpecInternSeq == InitIntern /\ [][NextInternSeq]_vars

\* ------------------------------------------------------------ graph shape
\* the number of fields of the node a pointer names
NumFields(ptr) ==
    CASE ptr.tag = "LamPtr" -> 2
      [] ptr.tag = "AppPtr" -> 2
      [] ptr.tag = "SupPtr" -> 3
      [] OTHER -> 4

\* The graph reachable from the root with addresses replaced by positions in
\* the NodeIter order: two graphs are isomorphic iff their shapes are equal.
Shape(m) ==
    LET order == Nodes(m)
        Idx(a) == IF SlotOf(a) = SlotOf(RootPtr) THEN 0
                  ELSE IF \E i \in 1..Len(order) : order[i].ptr = Base(SlotOf(a))
                  THEN CHOOSE i \in 1..Len(order) : order[i].ptr = Base(SlotOf(a))
                  ELSE -1
        Word(t) == IF t.tag \in {"UnusedVar", "UnboundVar", "U64", "Uninit"}
                   THEN <<t.tag, t.ptr, 0>>
                   ELSE <<t.tag, Idx(t.ptr), t.ptr % WordsPerBlock>>
    IN  <<Word(read(m, RootPtr))>> \o
        [i \in 1..Len(order) |->
            <<order[i].tag>> \o
            [j \in 1..NumFields(order[i]) |-> Word(read(m, order[i].ptr + j - 1))]]

\* a node pointer names a redex: an App of a Lam or Sup, a Dup of a Lam or Sup
IsRedex(m, ptr) ==
    \/ ptr.tag = "AppPtr" /\ read(m, ptr.ptr + AppE1).tag \in {"LamPtr", "SupPtr"}
    \/ ptr.tag = "DupPtr" /\ read(m, ptr.ptr + DupE).tag \in {"LamPtr", "SupPtr"}

\* the addresses of the redex nodes reachable from the root
RedexNodes(m) == {Nodes(m)[i].ptr : i \in {j \in 1..Len(Nodes(m)) : IsRedex(m, Nodes(m)[j])}}

\* the addresses of the redex nodes the scan returns
ScannedNodes(m) ==
    LET scan == collect_redexes(m, RootPtr)
    IN  {read(m, scan.redexes[i]).ptr : i \in 1..Len(scan.redexes)}

\* a driver has returned with the verdict that nothing is left to reduce
Quiescent == pc = "idle" /\ ret \in {"false", "unit"}

\* the graph TermGraph::from(input) builds
Built == [f \in {"mem", "blk", "fault", "ub"} |-> from(input)[f]]

\* ------------------------------------------------------------ claims

\* C1: back-pointer symmetry after a successful build and after every rule:
\* every binder slot that is not unused targets a NodeRef field holding the
\* marker of exactly that slot, and every field holding a bound-variable
\* marker (B, S) is the target of B.S.
C1_BackPointerSymmetry ==
    GraphOk =>
        /\ \A a \in BinderSlots :
              mem[a].tag # "UnusedVar" =>
                  /\ mem[a].tag = "VarUsePtr"
                  /\ mem[a].ptr \in NodeRefFields
                  /\ mem[mem[a].ptr] = MarkerOf(a)
        /\ \A f \in NodeRefFields :
              mem[f].tag \in BoundVarTags =>
                  /\ BinderSlot(mem[f]) \in BinderSlots
                  /\ MarkerOf(BinderSlot(mem[f])) = mem[f]
                  /\ mem[BinderSlot(mem[f])] = Tagged(f, "VarUsePtr")

\* C2: affinity: for every binder slot at most one NodeRef field of the graph
\* holds the marker that names it.
C2_Affinity ==
    GraphOk =>
        \A f, g \in NodeRefFields :
            (mem[f].tag \in BoundVarTags /\ mem[f] = mem[g]) => f = g

\* C3: confluence: whenever some reduction sequence of the built term has
\* ended with nothing left to reduce, repeating naive_reduce_step until it
\* returns false ends as well, in a graph of the same shape.
C3_Confluence ==
    Quiescent =>
        LET nf == step_until_false(Built)
        IN  \/ nf.fault = "oom"
            \/ nf.fault = "none" /\ Shape(Machine) = Shape(nf)

\* C4: quiescence: when naive_random_order_reduce has returned, and when
\* naive_reduce_step has returned false, no node reachable from the root is
\* a redex.
C4_Quiescence == Quiescent => RedexNodes(Machine) = {}

\* C5: scanner completeness: the scan returns a site for every redex node
\* reachable from the root.
C5_ScanComplete == GraphOk => RedexNodes(Machine) \subseteq ScannedNodes(Machine)

RuleNames == {"AppLam", "AppSup", "DupLam", "DupSupSame", "DupSupDiff"}

\* C6: a call of naive_reduce_step that returns, returns true exactly when
\* the scan finds a redex, and then one rule has been applied to the first
\* redex of the scan (its two nodes are deallocated); it returns false
\* exactly when the scan is empty, and then memory is unchanged.
C6_StepResult ==
    [][(pc = "idle" /\ pc' = "idle" /\ ret' \in {"true", "false"}) =>
          LET scan == collect_redexes(Machine, RootPtr)
              node == read(Machine, Head(scan.redexes))
              partner == IF node.tag = "AppPtr" THEN read(Machine, node.ptr + AppE1)
                         ELSE read(Machine, node.ptr + DupE)
          IN  /\ (ret' = "true") <=> (scan.redexes # <<>>)
              /\ (ret' = "false") <=> (scan.redexes = <<>>)
              /\ ret' = "true" =>
                    /\ rule' \in RuleNames
                    /\ blk'[SlotOf(node.ptr)].st = "freed"
                    /\ blk'[SlotOf(partner.ptr)].st = "freed"
              /\ ret' = "false" => (mem' = mem /\ blk' = blk /\ rule' = "none")]_vars

\* a step has returned false after earlier steps reduced redexes
C6_Witness == pc = "idle" /\ ret = "false" /\ \E s \in Slots : blk[s].st = "freed"

\* C7: the build fails for every term in which two occurrences resolve to
\* the same binder, and a graph it builds never has two fields holding the
\* marker of one binder slot.
C7_NonAffineRejected ==
    /\ (pc # "start" /\ NonAffine(input)) => pc = "failed"
    /\ pc = "idle" =>
          \A f, g \in NodeRefFields :
              (mem[f].tag \in BoundVarTags /\ mem[f] = mem[g]) => f = g

\* a term rejected for nothing but a binder with two occurrences
C7_Witness ==
    pc = "failed" /\ NonAffine(input) /\ ~DupBothDead(input) /\ ~DupSameName(input)

\* C8: a term with no other cause of failure builds, and a field of the
\* graph holds the unbound-variable marker for each occurrence whose name
\* has no active binder, a name whose scope was closed earlier included.
C8_UnboundVarWritten ==
    (pc # "start" /\ ~NonAffine(input) /\ ~DupBothDead(input) /\ ~DupSameName(input)) =>
        /\ pc = "idle"
        /\ Cardinality({f \in NodeRefFields : mem[f] = new_unbound_var})
             = FreeOccurrences(input, {})

\* C9: the build fails for every term with a Dup neither of whose binders
\* has an occurrence, and every Dup of a built graph has a used binder slot.
C9_DeadDupRejected ==
    /\ (pc # "start" /\ DupBothDead(input)) => pc = "failed"
    /\ pc = "idle" =>
          \A s \in LiveNodes :
              blk[s].kind = "Dup" =>
                  \/ mem[Base(s) + DupA].tag # "UnusedVar"
                  \/ mem[Base(s) + DupB].tag # "UnusedVar"

\* a term rejected for nothing but a Dup with two dead binders
C9_Witness ==
    pc = "failed" /\ DupBothDead(input) /\ ~NonAffine(input) /\ ~DupSameName(input)

\* C10: the build fails for every term with a Dup whose two binder names are
\* the same name.
C10_SameNameRejected == (pc # "start" /\ DupSameName(input)) => pc = "failed"

\* a term rejected for nothing but a Dup with one name for both binders
C10_Witness ==
    pc = "failed" /\ DupSameName(input) /\ ~NonAffine(input) /\ ~DupBothDead(input)

\* the term the comment at the Let case names: let x = e1 in e2 => (λx e2) e1
RECURSIVE Desugar(_)
Desugar(term) ==
    CASE term.t = "Var" -> term
      [] term.t = "Lam" -> Lam(term.x, Desugar(term.e))
      [] term.t = "App" -> App(Desugar(term.e1), Desugar(term.e2))
      [] term.t = "Sup" -> Sup(term.l, Desugar(term.e1), Desugar(term.e2))
      [] term.t = "Dup" -> Dup(term.l, term.a, term.b, Desugar(term.e), Desugar(term.cont))
      [] term.t = "Let" -> App(Lam(term.x, Desugar(term.e2)), Desugar(term.e1))

\* a Let occurs in the term
HasLet(term) == \E s \in Subterms(term) : s.t = "Let"

\* C11: building a term with Let and building the term in which every
\* Let(x, e1, body) is replaced by App(Lam(x, body), e1) both fail or both
\* succeed, and when they succeed the two graphs are isomorphic.
C11_LetDesugar ==
    (pc # "start" /\ HasLet(input)) =>
        /\ (pc = "failed") = (from(Desugar(input)).fault # "none")
        /\ pc = "idle" => Shape(Machine) = Shape(from(Desugar(input)))

\* the fields of the subterm stored in field f: f and, through the Lam, App
\* and Sup nodes stored there, the fields of their subterms
RECURSIVE SubtreeFields(_)
SubtreeFields(f) ==
    {f} \cup
    IF mem[f].tag \in {"LamPtr", "AppPtr", "SupPtr"}
    THEN UNION {SubtreeFields(mem[f].ptr + o) :
                    o \in SubtermOffsets(blk[SlotOf(mem[f].ptr)].kind)}
    ELSE {}

\* C12: in a built graph no binder slot of a Dup targets a field of the
\* subterm stored in that Dup's own e: the names a and b are bound in the
\* body only.
C12_DupScope ==
    pc = "idle" =>
        \A s \in LiveNodes : \A o \in {DupA, DupB} :
            (blk[s].kind = "Dup" /\ mem[Base(s) + o].tag = "VarUsePtr") =>
                mem[Base(s) + o].ptr \notin SubtreeFields(Base(s) + DupE)

\* the blocks of b that are allocated
LiveBlocks(b) == {s \in Slots : b[s].st = "live"}

\* the marker a VarUsePtr-tagged word is when it names field f
UsePtr(f) == Tagged(f, "VarUsePtr")

\* C13: AppLam on the App A hosted in field P, with A.e1 the Lam L, A.e2 = a
\* and L.x live: afterwards the field L.x targeted holds a (and the binder
\* slot of a targets that field when a is a bound marker and the field is not
\* L.e, which is moved on to P), P holds the value L.e has after that
\* substitution, the binder slot of that value targets P when it is a bound
\* marker, exactly A and L are deallocated and nothing is allocated.
C13_AppLam ==
    [][LET P == redex'.ptr_ptr
           A == redex'.ptr.ptr
           L == mem[A + AppE1].ptr
           a == mem[A + AppE2]
           f == mem[L + LamX].ptr
           v == IF f = L + LamE THEN a ELSE mem[L + LamE]
       IN  (rule' = "AppLam" /\ pc' \in {"idle", "reduce"}
                /\ mem[L + LamX].tag = "VarUsePtr") =>
               /\ mem'[f] = a
               /\ (a.tag \in BoundVarTags /\ f # L + LamE) =>
                      mem'[BinderSlot(a)] = UsePtr(f)
               /\ mem'[P] = v
               /\ v.tag \in BoundVarTags => mem'[BinderSlot(v)] = UsePtr(P)
               /\ LiveBlocks(blk') = LiveBlocks(blk) \ {SlotOf(A), SlotOf(L)}
               /\ {SlotOf(A), SlotOf(L)} \subseteq LiveBlocks(blk)]_vars

\* AppLam has substituted a bound-variable marker for a used x
C13_Witness ==
    /\ rule = "AppLam" /\ GraphOk
    /\ mem[mem[redex.ptr.ptr + AppE1].ptr + LamX].tag = "VarUsePtr"
    /\ mem[redex.ptr.ptr + AppE2].tag \in BoundVarTags

\* the blocks a step has allocated, and those among them of one kind
NewBlocks == LiveBlocks(blk') \ LiveBlocks(blk)
NewOfKind(kind) == {s \in NewBlocks : blk'[s].kind = kind}

\* after a step, the binder slot of v targets field f when v is a bound marker
Retargeted(v, f) == v.tag \in BoundVarTags => mem'[BinderSlot(v)] = UsePtr(f)

\* C14: AppSup on the App A hosted in field P, with A.e1 the Sup S of label l
\* and A.e2 = a: afterwards P holds a new Sup T = #l{A1 A2} of two new Apps
\* A1 = (S.e1 DupA(D)) and A2 = (S.e2 DupB(D)) with a new Dup
\* D = {l, a: &A1.e2, b: &A2.e2, e: a}; the binder slots of S.e1, S.e2 and a
\* target their new fields when these are bound markers; exactly one Dup, two
\* Apps and one Sup are allocated and exactly A and S are deallocated.
C14_AppSup ==
    [][LET P == redex'.ptr_ptr
           A == redex'.ptr.ptr
           S == mem[A + AppE1].ptr
           a == mem[A + AppE2]
           T == mem'[P].ptr
           A1 == mem'[T + SupE1].ptr
           A2 == mem'[T + SupE2].ptr
           D == mem'[A1 + AppE2].ptr
       IN  (rule' = "AppSup" /\ pc' \in {"idle", "reduce"}) =>
               /\ mem'[P] = Tagged(T, "SupPtr")
               /\ mem'[T + SupL] = mem[S + SupL]
               /\ mem'[T + SupE1] = Tagged(A1, "AppPtr")
               /\ mem'[T + SupE2] = Tagged(A2, "AppPtr")
               /\ mem'[A1 + AppE1] = mem[S + SupE1]
               /\ mem'[A1 + AppE2] = Tagged(D, "DupABoundVar")
               /\ mem'[A2 + AppE1] = mem[S + SupE2]
               /\ mem'[A2 + AppE2] = Tagged(D, "DupBBoundVar")
               /\ mem'[D + DupL] = mem[S + SupL]
               /\ mem'[D + DupA] = UsePtr(A1 + AppE2)
               /\ mem'[D + DupB] = UsePtr(A2 + AppE2)
               /\ mem'[D + DupE] = a
               /\ Retargeted(mem[S + SupE1], A1 + AppE1)
               /\ Retargeted(mem[S + SupE2], A2 + AppE1)
               /\ Retargeted(a, D + DupE)
               /\ NewOfKind("Dup") = {SlotOf(D)}
               /\ NewOfKind("App") = {SlotOf(A1), SlotOf(A2)}
               /\ NewOfKind("Sup") = {SlotOf(T)}
               /\ Cardinality(NewBlocks) = 4
               /\ {SlotOf(A), SlotOf(S)} \subseteq LiveBlocks(blk)
               /\ LiveBlocks(blk) \ LiveBlocks(blk') = {SlotOf(A), SlotOf(S)}]_vars

\* AppSup has moved a bound-variable marker out of the Sup or the argument
C14_Witness ==
    /\ rule = "AppSup" /\ GraphOk
    /\ mem[redex.ptr_ptr].tag = "SupPtr"
    /\ \/ mem[redex.ptr.ptr + AppE2].tag \in BoundVarTags
       \/ mem[mem[redex.ptr.ptr + AppE1].ptr + SupE1].tag \in BoundVarTags
       \/ mem[mem[redex.ptr.ptr + AppE1].ptr + SupE2].tag \in BoundVarTags

\* C15: DupLam on the Dup D of label l with D.e the Lam L and D.a, D.b, L.x
\* all live: afterwards the field D.a targeted holds a new Lam L1, the field
\* D.b targeted a new Lam L2, the field L.x targeted a new Sup
\* S = #l{LamBound(L1) LamBound(L2)}, L1 = {x: &S.e1, e: DupA(D2)},
\* L2 = {x: &S.e2, e: DupB(D2)} and the new Dup D2 = {l, a: &L1.e, b: &L2.e,
\* e: the body of L after x <- S}, whose binder slot targets D2.e when it is a
\* bound marker; exactly two Lams, one Sup and one Dup are allocated and
\* exactly D and L are deallocated.
C15_DupLam ==
    [][LET D == redex'.ptr.ptr
           L == mem[D + DupE].ptr
           fa == mem[D + DupA].ptr
           fb == mem[D + DupB].ptr
           fx == mem[L + LamX].ptr
           L1 == mem'[fa].ptr
           L2 == mem'[fb].ptr
           S == mem'[fx].ptr
           D2 == mem'[L1 + LamE].ptr
           body == IF fx = L + LamE THEN Tagged(S, "SupPtr") ELSE mem[L + LamE]
       IN  (rule' = "DupLam" /\ pc' \in {"idle", "reduce"}
               /\ mem[D + DupA].tag = "VarUsePtr"
               /\ mem[D + DupB].tag = "VarUsePtr"
               /\ mem[L + LamX].tag = "VarUsePtr") =>
               /\ mem'[fa] = Tagged(L1, "LamPtr")
               /\ mem'[fb] = Tagged(L2, "LamPtr")
               /\ mem'[fx] = Tagged(S, "SupPtr")
               /\ mem'[S + SupL] = mem[D + DupL]
               /\ mem'[S + SupE1] = Tagged(L1, "LamBoundVar")
               /\ mem'[S + SupE2] = Tagged(L2, "LamBoundVar")
               /\ mem'[L1 + LamX] = UsePtr(S + SupE1)
               /\ mem'[L1 + LamE] = Tagged(D2, "DupABoundVar")
               /\ mem'[L2 + LamX] = UsePtr(S + SupE2)
               /\ mem'[L2 + LamE] = Tagged(D2, "DupBBoundVar")
               /\ mem'[D2 + DupL] = mem[D + DupL]
               /\ mem'[D2 + DupA] = UsePtr(L1 + LamE)
               /\ mem'[D2 + DupB] = UsePtr(L2 + LamE)
               /\ mem'[D2 + DupE] = body
               /\ Retargeted(body, D2 + DupE)
               /\ NewOfKind("Lam") = {SlotOf(L1), SlotOf(L2)}
               /\ L1 # L2
               /\ NewOfKind("Sup") = {SlotOf(S)}
               /\ NewOfKind("Dup") = {SlotOf(D2)}
               /\ Cardinality(NewBlocks) = 4
               /\ {SlotOf(D), SlotOf(L)} \subseteq LiveBlocks(blk)
               /\ LiveBlocks(blk) \ LiveBlocks(blk') = {SlotOf(D), SlotOf(L)}]_vars

\* DupLam has copied a Lam whose variable and both of whose copies are used
C15_Witness ==
    /\ rule = "DupLam" /\ GraphOk
    /\ mem[redex.ptr.ptr + DupA].tag = "VarUsePtr"
    /\ mem[redex.ptr.ptr + DupB].tag = "VarUsePtr"
    /\ mem[mem[redex.ptr.ptr + DupE].ptr + LamX].tag = "VarUsePtr"

C18_RulesComplete ==
    rule \in RuleNames =>
        /\ pc \in {"idle", "reduce"}
        /\ \A f \in NodeRefFields : mem[f].tag \in BoundVarTags => mem[f].ptr # Null

\* 1 when the binder slot word v is used, 0 when it is unused
Used(v) == IF v.tag = "UnusedVar" THEN 0 ELSE 1

\* C19: DupLam and DupSupDiff allocate for the live binders only. In DupLam
\* on allocated nodes D and L with a binder unused: a Lam is allocated for
\* each used one of D.a, D.b, a Sup only when L.x is used, and one Dup D2; a
\* used side holds its new Lam {x: &S.e1 or &S.e2, or unused when L.x is
\* unused, e: DupA(D2) or DupB(D2)} and D2's slot targets that Lam's e, an
\* unused side leaves D2's slot unused. In DupSupDiff with one of D.a, D.b
\* unused: one Sup is allocated, for the used side, and two Dups D1, D2 whose
\* slots for the used side target that Sup's e1 and e2 and whose slots for
\* the unused side are unused, with D1.e = Σ.e1 and D2.e = Σ.e2.
C19_LiveOnly ==
    [][LET D == redex'.ptr.ptr
           N == mem[D + DupE].ptr
           a == mem[D + DupA]
           b == mem[D + DupB]
           x == mem[N + LamX]
           D2 == Base(CHOOSE s \in NewOfKind("Dup") : TRUE)
           S == mem'[x.ptr].ptr
           L1 == mem'[a.ptr].ptr
           L2 == mem'[b.ptr].ptr
           Sa == mem'[a.ptr].ptr
           Sb == mem'[b.ptr].ptr
           Dx(o) == mem'[(IF Used(a) = 1 THEN Sa ELSE Sb) + o].ptr
       IN  /\ (rule' = "DupLam" /\ pc' \in {"idle", "reduce"}
                 /\ {SlotOf(D), SlotOf(N)} \subseteq LiveBlocks(blk)
                 /\ Used(a) + Used(b) >= 1
                 /\ Used(a) + Used(b) + Used(x) < 3) =>
                 /\ Cardinality(NewOfKind("Lam")) = Used(a) + Used(b)
                 /\ Cardinality(NewOfKind("Sup")) = Used(x)
                 /\ Cardinality(NewOfKind("Dup")) = 1
                 /\ Cardinality(NewBlocks) = Used(a) + Used(b) + Used(x) + 1
                 /\ Used(x) = 1 => /\ mem'[x.ptr] = Tagged(S, "SupPtr")
                                   /\ NewOfKind("Sup") = {SlotOf(S)}
                                   /\ mem'[S + SupL] = mem[D + DupL]
                 /\ Used(a) = 1 =>
                       /\ mem'[a.ptr] = Tagged(L1, "LamPtr")
                       /\ SlotOf(L1) \in NewOfKind("Lam")
                       /\ mem'[L1 + LamE] = Tagged(D2, "DupABoundVar")
                       /\ mem'[L1 + LamX] = IF Used(x) = 1 THEN UsePtr(S + SupE1)
                                            ELSE new_unused_var
                       /\ Used(x) = 1 => mem'[S + SupE1] = Tagged(L1, "LamBoundVar")
                       /\ mem'[D2 + DupA] = UsePtr(L1 + LamE)
                 /\ Used(a) = 0 => mem'[D2 + DupA] = new_unused_var
                 /\ Used(b) = 1 =>
                       /\ mem'[b.ptr] = Tagged(L2, "LamPtr")
                       /\ SlotOf(L2) \in NewOfKind("Lam")
                       /\ mem'[L2 + LamE] = Tagged(D2, "DupBBoundVar")
                       /\ mem'[L2 + LamX] = IF Used(x) = 1 THEN UsePtr(S + SupE2)
                                            ELSE new_unused_var
                       /\ Used(x) = 1 => mem'[S + SupE2] = Tagged(L2, "LamBoundVar")
                       /\ mem'[D2 + DupB] = UsePtr(L2 + LamE)
                 /\ Used(b) = 0 => mem'[D2 + DupB] = new_unused_var
                 /\ mem'[D2 + DupL] = mem[D + DupL]
           /\ (rule' = "DupSupDiff" /\ pc' \in {"idle", "reduce"}
                 /\ {SlotOf(D), SlotOf(N)} \subseteq LiveBlocks(blk)
                 /\ Used(a) + Used(b) = 1) =>
                 /\ Cardinality(NewOfKind("Sup")) = 1
                 /\ Cardinality(NewOfKind("Dup")) = 2
                 /\ Cardinality(NewBlocks) = 3
                 /\ NewOfKind("Dup") = {SlotOf(Dx(SupE1)), SlotOf(Dx(SupE2))}
                 /\ mem'[Dx(SupE1) + DupE] = mem[N + SupE1]
                 /\ mem'[Dx(SupE2) + DupE] = mem[N + SupE2]
                 /\ Retargeted(mem[N + SupE1], Dx(SupE1) + DupE)
                 /\ Retargeted(mem[N + SupE2], Dx(SupE2) + DupE)
                 /\ \A o \in {SupE1, SupE2} : mem'[Dx(o) + DupL] = mem[D + DupL]
                 /\ Used(a) = 1 =>
                       /\ mem'[a.ptr] = Tagged(Sa, "SupPtr")
                       /\ NewOfKind("Sup") = {SlotOf(Sa)}
                       /\ mem'[Sa + SupL] = mem[N + SupL]
                       /\ \A o \in {SupE1, SupE2} :
                             /\ mem'[Sa + o] = Tagged(Dx(o), "DupABoundVar")
                             /\ mem'[Dx(o) + DupA] = UsePtr(Sa + o)
                             /\ mem'[Dx(o) + DupB] = new_unused_var
                 /\ Used(b) = 1 =>
                       /\ mem'[b.ptr] = Tagged(Sb, "SupPtr")
                       /\ NewOfKind("Sup") = {SlotOf(Sb)}
                       /\ mem'[Sb + SupL] = mem[N + SupL]
                       /\ \A o \in {SupE1, SupE2} :
                             /\ mem'[Sb + o] = Tagged(Dx(o), "DupBBoundVar")
                             /\ mem'[Dx(o) + DupB] = UsePtr(Sb + o)
                             /\ mem'[Dx(o) + DupA] = new_unused_var]_vars

\* DupLam or DupSupDiff has been applied to a Dup with exactly one binder used
C19_Witness ==
    /\ rule \in {"DupLam", "DupSupDiff"} /\ GraphOk
    /\ Used(mem[redex.ptr.ptr + DupA]) + Used(mem[redex.ptr.ptr + DupB]) = 1

\* the other binder slot of the Dup a Dup marker names
OtherSlot(v) == IF v.tag = "DupABoundVar" THEN v.ptr + DupB ELSE v.ptr + DupA

\* the binder slot a word names, when it is a bound-variable marker
SlotsNamed(v) == IF v.tag \in BoundVarTags THEN {BinderSlot(v)} ELSE {}

\* the Dup a discarded marker v leaves with no used binder
DupsEmptied(v) ==
    IF v.tag \in {"DupABoundVar", "DupBBoundVar"} /\ mem[OtherSlot(v)].tag = "UnusedVar"
    THEN {SlotOf(v.ptr)} ELSE {}

\* the addresses a step has written a different word to
Changed == {a \in Addr : mem'[a] # mem[a]}

\* C20: x <- v with x unused and v a variable marker. In AppLam with L.x
\* unused and v = A.e2, and in DupSupSame with D.a (or D.b) unused and
\* v = Σ.e1 (or Σ.e2): when v is a bound-variable marker the binder slot it
\* names becomes unused, and the Dup it names is deallocated exactly when
\* its other slot was unused already; when v is the unbound marker nothing
\* changes but what the rest of the rule does (the move of L.e to P, or of
\* the other half of Σ to the field of the used binder, and the
\* deallocation of the two nodes of the redex).
C20_DiscardMarker ==
    [][LET P == redex'.ptr_ptr
           N == redex'.ptr.ptr
           L == mem[N + AppE1].ptr
           Sg == mem[N + DupE].ptr
           IsVar(v) == v.tag \in BoundVarTags \cup {"UnboundVar"}
           Discarded(v, f, w, M) ==
               /\ \A t \in SlotsNamed(v) : mem'[t] = new_unused_var
               /\ Changed \subseteq {f} \cup SlotsNamed(w) \cup SlotsNamed(v)
               /\ LiveBlocks(blk') = LiveBlocks(blk) \ ({SlotOf(N), SlotOf(M)} \cup DupsEmptied(v))
               /\ DupsEmptied(v) \subseteq LiveBlocks(blk)
       IN  /\ (rule' = "AppLam" /\ pc' \in {"idle", "reduce"}
                 /\ {SlotOf(N), SlotOf(L)} \subseteq LiveBlocks(blk)
                 /\ mem[L + LamX].tag = "UnusedVar"
                 /\ IsVar(mem[N + AppE2])) =>
                 Discarded(mem[N + AppE2], P, mem[L + LamE], L)
           /\ (rule' = "DupSupSame" /\ pc' \in {"idle", "reduce"}
                 /\ {SlotOf(N), SlotOf(Sg)} \subseteq LiveBlocks(blk)
                 /\ mem[N + DupA].tag = "UnusedVar" /\ mem[N + DupB].tag = "VarUsePtr"
                 /\ IsVar(mem[Sg + SupE1])) =>
                 Discarded(mem[Sg + SupE1], mem[N + DupB].ptr, mem[Sg + SupE2], Sg)
           /\ (rule' = "DupSupSame" /\ pc' \in {"idle", "reduce"}
                 /\ {SlotOf(N), SlotOf(Sg)} \subseteq LiveBlocks(blk)
                 /\ mem[N + DupB].tag = "UnusedVar" /\ mem[N + DupA].tag = "VarUsePtr"
                 /\ IsVar(mem[Sg + SupE2])) =>
                 Discarded(mem[Sg + SupE2], mem[N + DupA].ptr, mem[Sg + SupE1], Sg)]_vars

\* AppLam with L.x unused has discarded the marker of the last used binder
\* of a Dup, and the Dup is deallocated
C20_Witness ==
    /\ rule = "AppLam" /\ GraphOk
    /\ mem[mem[redex.ptr.ptr + AppE1].ptr + LamX].tag = "UnusedVar"
    /\ mem[redex.ptr.ptr + AppE2].tag \in {"DupABoundVar", "DupBBoundVar"}
    /\ mem[OtherSlot(mem[redex.ptr.ptr + AppE2])].tag = "UnusedVar"
    /\ blk[SlotOf(mem[redex.ptr.ptr + AppE2].ptr)].st = "freed"

\* the nodes of the subterm stored in field f, and the markers inside it
SubtreeNodes(f) ==
    {mem[g].ptr : g \in {h \in SubtreeFields(f) : mem[h].tag \in {"LamPtr", "AppPtr", "SupPtr"}}}
SubtreeMarkers(f) ==
    {mem[g] : g \in {h \in SubtreeFields(f) : mem[h].tag \in BoundVarTags}}

\* C21: discarding a subterm is recursive. When AppLam finds L.x unused and
\* A.e2 is a pointer to a Lam, App or Sup, and when DupSupSame finds D.a (or
\* D.b) unused and Σ.e1 (or Σ.e2) is such a pointer: afterwards every node of
\* that subterm is deallocated and every binder slot named by a marker
\* inside it, of a node outside it, is unused.
C21_DiscardRecursive ==
    [][LET N == redex'.ptr.ptr
           L == mem[N + AppE1].ptr
           Sg == mem[N + DupE].ptr
           IsNode(v) == v.tag \in {"LamPtr", "AppPtr", "SupPtr"}
           Gone(f) ==
               /\ \A n \in SubtreeNodes(f) : SlotOf(n) \notin LiveBlocks(blk')
               /\ \A v \in SubtreeMarkers(f) :
                     v.ptr \notin SubtreeNodes(f) => mem'[BinderSlot(v)] = new_unused_var
       IN  /\ (rule' = "AppLam" /\ pc' \in {"idle", "reduce"}
                 /\ {SlotOf(N), SlotOf(L)} \subseteq LiveBlocks(blk)
                 /\ mem[L + LamX].tag = "UnusedVar" /\ IsNode(mem[N + AppE2])) =>
                 Gone(N + AppE2)
           /\ (rule' = "DupSupSame" /\ pc' \in {"idle", "reduce"}
                 /\ {SlotOf(N), SlotOf(Sg)} \subseteq LiveBlocks(blk)
                 /\ mem[N + DupA].tag = "UnusedVar" /\ IsNode(mem[Sg + SupE1])) =>
                 Gone(Sg + SupE1)
           /\ (rule' = "DupSupSame" /\ pc' \in {"idle", "reduce"}
                 /\ {SlotOf(N), SlotOf(Sg)} \subseteq LiveBlocks(blk)
                 /\ mem[N + DupB].tag = "UnusedVar" /\ IsNode(mem[Sg + SupE2])) =>
                 Gone(Sg + SupE2)]_vars

\* the blocks of the nodes the walk from the root cell reaches
ReachableBlocks(m) == {SlotOf(Nodes(m)[i].ptr) : i \in 1..Len(Nodes(m))}

\* C22: no leaks: after a successful build and after every rule, every
\* allocated node is reachable from the root cell through subterm pointers
\* and through bound-variable markers to their Dup.
C22_NoLeak == GraphOk => LiveNodes \subseteq ReachableBlocks(Machine)

CollectableTags ==
    {"UnboundVar", "LamBoundVar", "DupABoundVar", "DupBBoundVar", "LamPtr", "AppPtr", "SupPtr"}

\* the words the rule named r hands to garbage_collect at the redex whose
\* node is N
DiscardedWords(r, N) ==
    LET L == mem[N + AppE1].ptr
        Sg == mem[N + DupE].ptr
        a == mem[N + DupA]
        b == mem[N + DupB]
    IN  CASE r = "AppLam" -> IF mem[L + LamX].tag = "UnusedVar" THEN {mem[N + AppE2]} ELSE {}
          [] r = "DupSupSame" ->
                (IF a.tag = "UnusedVar" THEN {mem[Sg + SupE1]} ELSE {}) \cup
                (IF b.tag # "UnusedVar" THEN {}
                 ELSE IF a.tag # "UnusedVar" /\ a.ptr = Sg + SupE2 THEN {mem[Sg + SupE1]}
                 ELSE {mem[Sg + SupE2]})
          [] OTHER -> {}

\* C24: the rewriter is infallible on scanned sites: whenever a driver hands
\* a site of the scan to reduce_redex, the kinds of the pair select one of
\* AppLam, AppSup, DupLam, DupSup and no unreachable!() of reduce_redex is
\* met, and every word the rule hands to garbage_collect has a tag that
\* garbage_collect has a case for.
C24_Infallible ==
    [][rule' # "none" =>
          /\ rule' \in RuleNames
          /\ \A v \in DiscardedWords(rule', redex'.ptr.ptr) : v.tag \in CollectableTags]_vars

\* AppLam has handed a subterm pointer to garbage_collect
C24_Witness ==
    /\ rule = "AppLam" /\ GraphOk
    /\ mem[mem[redex.ptr.ptr + AppE1].ptr + LamX].tag = "UnusedVar"
    /\ mem[redex.ptr.ptr + AppE2].tag \in {"LamPtr", "AppPtr", "SupPtr"}

\* all handles of equal content have the same address
Canonical == \A i, j \in 1..Len(handles) :
                 handles[i].content = handles[j].content => handles[i].addr = handles[j].addr

\* C25: interning is canonical under concurrency: in every interleaving of
\* the calls of several threads all handles returned for equal contents have
\* the same address, and the interned set holds one entry for a content.
C25_CanonicalConcurrent ==
    /\ Canonical
    /\ \A e, f \in interned : e.content = f.content => e = f

\* C26: on one thread interning is canonical: after every sequence of intern
\* and intern_static calls all handles of equal content have the same
\* address, which is the address of the first handle returned for that
\* content and of its entry, and no entry is removed or replaced.
C26_CanonicalSequential ==
    [][/\ Canonical'
       /\ \A i \in 1..Len(handles') : handles'[i] \in interned'
       /\ \A i \in 1..Len(handles) : handles'[i] = handles[i]
       /\ interned \subseteq interned']_vars

\* a content interned by intern is asked for a second time
C26_Witness ==
    /\ Len(handles) >= 2
    /\ handles[1].content = handles[2].content
    /\ handles[1].addr = LeakedAddr(1)
    /\ handles[2].addr = LeakedAddr(1)

\* C27: round trip: for every term with names of the form [_a-z][_a-zA-Z0-9]*
\* and u64 labels, parsing what Display wrote succeeds, consumes the whole
\* input and yields a term equal to the term printed.
C27_RoundTrip ==
    pc = "parsed" => /\ parsed.ok
                     /\ parsed.done
                     /\ parsed.term = input

\* the field holds a redex: an App whose e1 is a Lam or a Sup, or a reference
\* to a Dup (the pointer or one of its markers) whose e is a Lam or a Sup
HoldsRedex(m, ptr_ptr) ==
    Do(read(m, ptr_ptr), LAMBDA v :
        \/ v.tag = "AppPtr" /\ read(m, v.ptr + AppE1).tag \in {"LamPtr", "SupPtr"}
        \/ v.tag \in DupRefTags /\ read(m, v.ptr + DupE).tag \in {"LamPtr", "SupPtr"})

\* C28: the scanner is sound and reports no node twice: every field
\* collect_redexes returns holds a redex, and no two of the fields it returns
\* hold the same node (a Dup that both its markers reference is one site).
C28_ScanSound ==
    pc = "idle" =>
        Do(collect_redexes(Machine, RootPtr).redexes, LAMBDA sites :
            /\ \A i \in 1..Len(sites) : HoldsRedex(Machine, sites[i])
            /\ \A i, j \in 1..Len(sites) :
                  read(Machine, sites[i]).ptr = read(Machine, sites[j]).ptr => i = j)

\* the scan reports a Dup through one of its markers, and both markers of
\* that Dup are in use
C28_Witness ==
    /\ pc = "idle" /\ ~ub
    /\ Do(collect_redexes(Machine, RootPtr).redexes, LAMBDA sites :
          \E i \in 1..Len(sites) :
              Do(read(Machine, sites[i]), LAMBDA v :
                  /\ v.tag \in {"DupABoundVar", "DupBBoundVar"}
                  /\ SlotOf(v.ptr) \in LiveBlocks(blk)
                  /\ read(Machine, v.ptr + DupA).tag = "VarUsePtr"
                  /\ read(Machine, v.ptr + DupB).tag = "VarUsePtr"))

\* C29: during a scan the bound-variable markers are leaves: collect_redexes
\* pushes no field of a node it came to through a Lam-bound, Dup-a-bound or
\* Dup-b-bound marker; it follows subterm pointers only.
C29_MarkersAreLeaves ==
    pc = "idle" =>
        \A f \in collect_redexes(Machine, RootPtr).followed : f.from.tag \notin BoundVarTags

\* C29 as amended: a Lam-bound marker is a leaf, and a Dup marker is followed
\* as the pointer to its Dup is: of the Dup's fields e is pushed, and no other.
C29_DupMarkersFollowed ==
    pc = "idle" =>
        Do(collect_redexes(Machine, RootPtr), LAMBDA scan :
            /\ \A f \in scan.followed :
                  /\ f.from.tag # "LamBoundVar"
                  /\ f.from.tag \in DupRefTags => f.field = f.from.ptr + DupE
            /\ \A i \in 1..Len(scan.redexes) :
                  Do(read(Machine, scan.redexes[i]), LAMBDA v :
                      v.tag \in DupRefTags =>
                          [from |-> v, field |-> v.ptr + DupE] \in scan.followed))

\* the scan comes to a Dup through a marker and finds the redex it is
C29_Witness ==
    /\ pc = "idle" /\ ~ub
    /\ Do(collect_redexes(Machine, RootPtr), LAMBDA scan :
          \E i \in 1..Len(scan.redexes) :
              Do(read(Machine, scan.redexes[i]), LAMBDA v :
                  /\ v.tag \in {"DupABoundVar", "DupBBoundVar"}
                  /\ SlotOf(v.ptr) \in LiveBlocks(blk)
                  /\ [from |-> v, field |-> v.ptr + DupE] \in scan.followed))

\* The redex sites in the order of a depth-first pre-order walk from the
\* field ptr_ptr: a node before its children, e2 of an App or a Sup before
\* e1, a Dup entered through the first reference met; a node is entered once.
RECURSIVE PreOrder(_, _, _)
PreOrder(m, todo, acc) ==
    IF todo = <<>> THEN acc
    ELSE Do(read(m, Head(todo)), LAMBDA v :
            IF v.tag \notin NodePtrTags \cup DupRefTags \/ v.ptr \in acc.entered
            THEN PreOrder(m, Tail(todo), acc)
            ELSE PreOrder(m,
                          (CASE v.tag = "LamPtr" -> <<v.ptr + LamE>>
                             [] v.tag = "AppPtr" -> <<v.ptr + AppE2, v.ptr + AppE1>>
                             [] v.tag = "SupPtr" -> <<v.ptr + SupE2, v.ptr + SupE1>>
                             [] OTHER -> <<v.ptr + DupE>>) \o Tail(todo),
                          [entered |-> acc.entered \cup {v.ptr},
                           sites |-> IF HoldsRedex(m, Head(todo))
                                     THEN Append(acc.sites, Head(todo)) ELSE acc.sites]))

FirstInPreOrder(m) == PreOrder(m, <<RootPtr>>, [entered |-> {}, sites |-> <<>>]).sites

\* C30: the first-found policy is root-first: the redex naive_reduce_step
\* reduces is the first one of the depth-first pre-order walk from the root
\* cell that explores e2 before e1, and it is the root cell's when the root
\* cell holds a redex.
C30_FirstFound ==
    [][(pc = "idle" /\ rule' # "none") =>
          /\ FirstInPreOrder(Machine) # <<>>
          /\ redex'.ptr_ptr = Head(FirstInPreOrder(Machine))
          /\ HoldsRedex(Machine, RootPtr) => redex'.ptr_ptr = RootPtr]_vars

\* every step so far reduced the first redex of its scan
FirstFoundOnly == \A i \in 1..Len(steps) : steps[i].first

\* C31: mismatched labels commute, matching labels collapse: from
\* λx λy (dup #l{a b} = #m{x y}; (a b)) with l # m the first-found policy
\* steps DupSupDiff, AppSup, DupSupSame and no further, and leaves
\* λx λy #m{(ax bx) (ay by)} with dup #l{ax bx} = x and dup #l{ay by} = y.
C31_LabelsCommute ==
    (input = T_diff /\ FirstFoundOnly /\ pc # "dropped") =>
        /\ pc \in {"start", "idle", "reduce"} /\ ~ub
        /\ Len(steps) <= 3
        /\ \A i \in 1..Len(steps) :
              steps[i].rule = <<"DupSupDiff", "AppSup", "DupSupSame">>[i]
        /\ pc # "start" =>
              Do(collect_redexes(Machine, RootPtr).redexes, LAMBDA sites :
                  /\ Len(steps) < 3 => sites # <<>>
                  /\ Len(steps) = 3 => /\ sites = <<>>
                                       /\ Shape(Machine) = Shape(from(T_diff_nf)))

\* the fourth naive_reduce_step has returned false
C31_Witness ==
    /\ input = T_diff /\ FirstFoundOnly
    /\ Len(steps) = 3
    /\ pc = "idle" /\ ret = "false"

\* the nodes of a kind that the constructors of a term call for: one for a
\* Lam, App, Sup or Dup, an App and a Lam for a Let
RECURSIVE Constructors(_, _)
Constructors(term, kind) ==
    CASE term.t = "Var" -> 0
      [] term.t = "Lam" -> (IF kind = "Lam" THEN 1 ELSE 0) + Constructors(term.e, kind)
      [] term.t = "App" -> (IF kind = "App" THEN 1 ELSE 0) + Constructors(term.e1, kind)
                           + Constructors(term.e2, kind)
      [] term.t = "Sup" -> (IF kind = "Sup" THEN 1 ELSE 0) + Constructors(term.e1, kind)
                           + Constructors(term.e2, kind)
      [] term.t = "Dup" -> (IF kind = "Dup" THEN 1 ELSE 0) + Constructors(term.e, kind)
                           + Constructors(term.cont, kind)
      [] term.t = "Let" -> (IF kind \in {"App", "Lam"} THEN 1 ELSE 0)
                           + Constructors(term.e1, kind) + Constructors(term.e2, kind)

\* C32: a successful build allocates one node for each Lam, App, Sup and Dup
\* of the term (an App and a Lam for a Let), all of them reachable from the
\* root cell, and stores no Dup pointer in a field: a Dup is referenced by
\* the markers of a and b only.
C32_BuildAllocates ==
    pc = "idle" =>
        /\ \A kind \in NodeKinds :
              Cardinality({s \in LiveNodes : blk[s].kind = kind}) = Constructors(input, kind)
        /\ \A f \in NodeRefFields \cup BinderSlots : mem[f].tag # "DupPtr"
        /\ LiveNodes \subseteq ReachableBlocks(Machine)

\* the labels of the Sups and Dups of a term
RECURSIVE TermLabels(_)
TermLabels(term) ==
    CASE term.t = "Var" -> {}
      [] term.t = "Lam" -> TermLabels(term.e)
      [] term.t = "App" -> TermLabels(term.e1) \cup TermLabels(term.e2)
      [] term.t = "Sup" -> {term.l} \cup TermLabels(term.e1) \cup TermLabels(term.e2)
      [] term.t = "Dup" -> {term.l} \cup TermLabels(term.e) \cup TermLabels(term.cont)
      [] term.t = "Let" -> TermLabels(term.e1) \cup TermLabels(term.e2)

\* the label words of the consumed redex: of its Dup and of its Sup
DupLabel == IF rule' = "AppSup" THEN Uninit ELSE mem[redex'.ptr.ptr + DupL]
SupLabel == IF rule' = "AppSup" THEN mem[mem[redex'.ptr.ptr + AppE1].ptr + SupL]
            ELSE mem[mem[redex'.ptr.ptr + DupE].ptr + SupL]

\* C33: labels are preserved: a Sup or Dup a rule creates carries a label of
\* the redex it consumed (AppSup: the Sup's; DupLam: the Dup's; DupSupDiff:
\* new Sups the Sup's, new Dups the Dup's), and after the build and after
\* every rule the labels in the graph are labels of the built term.
C33_LabelsPreserved ==
    [][pc' \in {"idle", "reduce"} =>
          /\ \A s \in LiveBlocks(blk') :
                blk'[s].kind \in {"Sup", "Dup"} =>
                    mem'[Base(s) + SupL] \in {U64(l) : l \in TermLabels(input)}
          /\ rule' \in {"AppSup", "DupLam", "DupSupDiff"} =>
                /\ \A s \in NewOfKind("Sup") :
                      mem'[Base(s) + SupL] = IF rule' = "DupLam" THEN DupLabel ELSE SupLabel
                /\ \A s \in NewOfKind("Dup") :
                      mem'[Base(s) + DupL] = IF rule' = "AppSup" THEN SupLabel ELSE DupLabel]_vars

\* DupSupDiff has made two Sups of one label and two Dups of the other
C33_Witness ==
    /\ pc = "idle" /\ rule = "DupSupDiff" /\ ~ub
    /\ \E s, t \in LiveNodes :
          /\ blk[s].kind = "Sup" /\ blk[t].kind = "Dup"
          /\ mem[Base(s) + SupL] = U64(1)
          /\ mem[Base(t) + DupL] = U64(0)
          /\ mem[Base(t) + DupA] = UsePtr(Base(s) + SupE1)

\* C34: tag discipline: in every state of a graph the binder slots hold
\* UnusedVar or VarUsePtr only, the subterm fields and the root cell hold
\* neither, and every bound-variable marker and every VarUsePtr carries an
\* address that is not null.
C34_TagDiscipline ==
    GraphOk =>
        /\ \A a \in BinderSlots : mem[a].tag \in {"UnusedVar", "VarUsePtr"}
        /\ \A f \in NodeRefFields : mem[f].tag \notin {"UnusedVar", "VarUsePtr"}
        /\ \A a \in BinderSlots \cup NodeRefFields :
              mem[a].tag \in BoundVarTags \cup {"VarUsePtr"} => mem[a].ptr # Null

\* env with name x bound to the marker v
Bind(env, x, v) == [n \in DOMAIN env \cup {x} |-> IF n = x THEN v ELSE env[n]]

\* The subterm stored in field f is the graph of term with every occurrence
\* of a name linked to the innermost binder that encloses it: env holds, for
\* the names in scope at term, the marker of that binder. A Lam binds x in
\* its body, a Let in its body (not in e1), a Dup binds a and b in its body
\* (not in e).
RECURSIVE Linked(_, _, _)
Linked(term, f, env) ==
    CASE term.t = "Var" ->
            IF term.x \in DOMAIN env
            THEN /\ mem[f] = env[term.x]
                 /\ \A a \in BinderSlots :
                       mem[a] = UsePtr(f) <=> a = BinderSlot(env[term.x])
            ELSE mem[f] = new_unbound_var
      [] term.t = "Lam" ->
            /\ mem[f].tag = "LamPtr"
            /\ Linked(term.e, mem[f].ptr + LamE,
                      Bind(env, term.x, Tagged(mem[f].ptr, "LamBoundVar")))
      [] term.t = "App" ->
            /\ mem[f].tag = "AppPtr"
            /\ Linked(term.e1, mem[f].ptr + AppE1, env)
            /\ Linked(term.e2, mem[f].ptr + AppE2, env)
      [] term.t = "Sup" ->
            /\ mem[f].tag = "SupPtr"
            /\ Linked(term.e1, mem[f].ptr + SupE1, env)
            /\ Linked(term.e2, mem[f].ptr + SupE2, env)
      [] term.t = "Dup" ->
            \E d \in {s \in LiveNodes : blk[s].kind = "Dup"} :
                /\ Linked(term.e, Base(d) + DupE, env)
                /\ Linked(term.cont, f,
                          Bind(Bind(env, term.a, Tagged(Base(d), "DupABoundVar")),
                               term.b, Tagged(Base(d), "DupBBoundVar")))
      [] term.t = "Let" ->
            /\ mem[f].tag = "AppPtr"
            /\ mem[mem[f].ptr + AppE1].tag = "LamPtr"
            /\ Linked(term.e1, mem[f].ptr + AppE2, env)
            /\ Linked(term.e2, mem[mem[f].ptr + AppE1].ptr + LamE,
                      Bind(env, term.x, Tagged(mem[mem[f].ptr + AppE1].ptr, "LamBoundVar")))

\* C35: shadowing: in a built graph every occurrence of a name is linked to
\* the innermost binder of that name that encloses it and to no other; an
\* occurrence after the end of an inner scope is linked to the outer binder.
C35_Shadowing ==
    (pc = "idle" /\ steps = <<>>) => Linked(input, RootPtr, <<>>)

\* the word refers to a block that is not allocated
Dangling(v) ==
    /\ v.tag \in NodePtrTags \cup BoundVarTags \cup {"VarUsePtr"}
    /\ v.ptr # Null
    /\ SlotOf(v.ptr) \notin LiveBlocks(blk)

\* C36: no use after free: no step of a reduction loads or stores a field
\* of a deallocated node, and after every rule no binder slot of an allocated
\* node and no field of a node reachable from the root refers to a
\* deallocated node.
C36_NoUseAfterFree ==
    /\ ~ub
    /\ GraphOk =>
          /\ \A a \in BinderSlots : ~Dangling(mem[a])
          /\ ~Dangling(mem[RootPtr])
          /\ \A s \in ReachableBlocks(Machine) \cap LiveNodes :
                \A o \in SubtermOffsets(blk[s].kind) : ~Dangling(mem[Base(s) + o])

\* one binder slot of the Dup at address d is in use, in memory w
BinderLive(w, d) == w[d + DupA].tag # "UnusedVar" \/ w[d + DupB].tag # "UnusedVar"

\* C37: the assertions that guard the Dup rules are valid: every Dup redex
\* handed to rule_dup_lam or rule_dup_sup has one of its binders a, b in
\* use, and no allocated Dup reachable from the root has both binder slots
\* unused.
C37_DupAssertions ==
    [][/\ rule' \in {"DupLam", "DupSupSame", "DupSupDiff"} => BinderLive(mem, redex'.ptr.ptr)
       /\ pc' \in {"idle", "reduce"} =>
             \A s \in ReachableBlocks(Machine') \cap LiveBlocks(blk') :
                 blk'[s].kind = "Dup" => BinderLive(mem', Base(s))]_vars

\* DupLam was applied to a Dup with one binder unused and left a Dup with
\* one binder unused
C37_Witness ==
    /\ pc = "idle" /\ rule = "DupLam" /\ ~ub
    /\ \E s \in ReachableBlocks(Machine) \cap LiveNodes :
          /\ blk[s].kind = "Dup"
          /\ mem[Base(s) + DupA].tag = "VarUsePtr"
          /\ mem[Base(s) + DupB].tag = "UnusedVar"

\* the terms made of Var, Lam, App and Let only
RECURSIVE Affine(_)
Affine(term) ==
    CASE term.t = "Var" -> TRUE
      [] term.t = "Lam" -> Affine(term.e)
      [] term.t \in {"App", "Let"} -> Affine(term.e1) /\ Affine(term.e2)
      [] OTHER -> FALSE

\* C38: termination without duplication: for a graph built from a term of
\* Var, Lam, App and Let only, each step under any redex choice is an AppLam
\* that allocates nothing and deallocates the App and the Lam of its redex,
\* so the steps of a reduction sequence never outnumber the App nodes of the
\* built graph.
C38_AffineTerminates ==
    [][(Affine(input) /\ steps' # steps) =>
          /\ rule' = "AppLam"
          /\ NewBlocks = {}
          /\ {SlotOf(redex'.ptr.ptr), SlotOf(mem[redex'.ptr.ptr + AppE1].ptr)}
                \subseteq LiveBlocks(blk) \ LiveBlocks(blk')
          /\ Len(steps') <= Constructors(input, "App")]_vars

\* both Apps of ((\x x) ((\y y) z)) were reduced, the inner one first
C38_Witness ==
    /\ input = T_nested /\ Len(steps) = 2 /\ ~steps[1].first
    /\ collect_redexes(Machine, RootPtr).redexes = <<>>

\* the two nodes of the redex the field f holds: the App and its e1, or the
\* Dup and its e
RedexPair(f) ==
    {mem[f].ptr, mem[mem[f].ptr + (IF mem[f].tag = "AppPtr" THEN AppE1 ELSE DupE)].ptr}

\* the subterm fields (the root cell among them) whose value is the node at p
Owners(p) ==
    {f \in NodeRefFields : mem[f].tag \in {"LamPtr", "AppPtr", "SupPtr"} /\ mem[f].ptr = p}

\* C39: unique ownership: in every graph reachable from a built term, each
\* Lam, App and Sup node is the value of at most one subterm field (counting
\* the root cell), so the node pairs of two distinct redexes found in one scan
\* are disjoint.
C39_UniqueOwnership ==
    GraphOk =>
        /\ \A s \in LiveNodes : Cardinality(Owners(Base(s))) <= 1
        /\ Do(collect_redexes(Machine, RootPtr).redexes, LAMBDA sites :
                \A i, j \in 1..Len(sites) :
                    i # j => RedexPair(sites[i]) \cap RedexPair(sites[j]) = {})

\* after a rule, one scan finds two redexes
C39_Witness ==
    /\ pc \in {"idle", "reduce"} /\ steps # <<>> /\ ~ub
    /\ Len(collect_redexes(Machine, RootPtr).redexes) >= 2

====
